---- MODULE Spec2Model ----
(***************************************************************************)
(* Flow-scoring engine of mindful-code: the per-user FlowDetectionEngine   *)
(* (services/flow.rs), the rule-based score combiner (services/ml.rs) and  *)
(* the analyzer registry with its handler (state.rs, handlers/flow.rs).    *)
(*                                                                         *)
(* Numbers.  The code computes in f32.  Scores are modelled in fixed point *)
(* with unit 1/SCALE (10000 stands for 1.0); a product of two scores is    *)
(* divided by SCALE, rounding toward minus infinity.  Intervals, counts    *)
(* and times are integers as in the code (u64/u32, milliseconds).          *)
(* Option<T> is a sequence: <<>> is None, <<v>> is Some(v).                *)
(***************************************************************************)
EXTENDS Integers, Sequences, FiniteSets, TLC

VARIABLES
    engine,        \* Spec: one FlowDetectionEngine (the fields of the struct)
    now,           \* the monotonic clock read by Instant::now(), in ms
    ticks,         \* number of clock advances so far
    hist,          \* the calls made on `engine`, with their results
    twin,          \* SpecPair: a second FlowDetectionEngine
    twinHist,      \* the calls made on `twin`, with their results
    flow_engines,  \* SpecReg: AppState.flow_engines, user id -> Option<handle>
    arcs,          \* the Arc<RwLock<FlowDetectionEngine>> objects allocated so far
    pc,            \* where each detect_flow_state call stands
    call,          \* the locals of each detect_flow_state call
    acquired,      \* the calls in the order they obtained a write guard
    websocket_connections, \* AppState.websocket_connections, user id -> Option<channel>
    requests,      \* SpecRate: RateLimiter.requests, identifier -> Option<Vec<Instant>>
    rateLog,       \* the check_rate_limit calls made, with their answers
    enc,           \* SpecEnc: one EncryptionService
    vault,         \* the values encrypted so far, with their EncryptedData
    decLog,        \* the decrypt_sensitive_data calls made, with their answers
    ruleLog,       \* SpecRule: the rule_based_prediction calls made, with their values
    outbox,        \* the flow-state messages sent to each user's channel, in order
    conns,         \* SpecConn: the websocket_connection tasks and their channels
    active_sessions, \* SpecIdle: AppState.active_sessions, session id -> Option<SessionInfo>
    cleaner,       \* the cleanup_idle_sessions call: its position and locals
    sumLog         \* SpecSum: the interval sums computed, with their outcomes

regVars == <<flow_engines, arcs, pc, call, acquired, websocket_connections, outbox>>

sysVars == <<conns, active_sessions, cleaner, sumLog>>

svcVars == <<requests, rateLog, enc, vault, decLog, ruleLog, sysVars>>

vars == <<engine, now, ticks, hist, twin, twinHist, flow_engines, arcs, pc, call,
          acquired, websocket_connections, requests, rateLog, enc, vault, decLog,
          ruleLog, outbox, conns, active_sessions, cleaner, sumLog>>

----------------------------------------------------------------------------
(* Bounds of the model *)
MaxCalls == 2
MaxTicks == 1
MaxSessionCalls == 4
MaxPairCalls == 3
MaxPushCalls == 2
MaxTimedCalls == 2
MaxServiceTicks == 2
MaxRateCalls == 5
MaxRequests == 2
WindowMs == 22000
MaxVault == 2
MaxRotations == 2
MaxDecrypts == 2
MaxLongCalls == 52
MaxRuleCalls == 3
MaxScoreCalls == 2
MaxWaits == 1
FreeCalls == 3
NumCalls == 3
NumUsers == 2
NumConns == 2
NumSessions == 2
MaxConnTicks == 4
MaxIdleTicks == 3
MaxCleanups == 2
IdleTickMs == 1200000
MaxSumLen == 3
MaxSums == 2
TickMs == 11000

(* Fixed-point unit of an f32 score *)
SCALE == 10000

(* Program constants *)
BufferCap == 100
ConfidenceCap == 50
DefaultSensitivity == 7000
LatencyBudgetUs == 1000
\* the period of the ping interval and the age of last_pong past which a
\* connection is stale, in ms
PingPeriodMs == 30000
StaleAfterMs == 90000
\* the idle timeout monitor_websocket_performance passes to
\* cleanup_idle_sessions (30 minutes), in ms
IdleTimeoutMs == 1800000

----------------------------------------------------------------------------
(* Arithmetic helpers *)

Min(a, b) == IF a <= b THEN a ELSE b
Max(a, b) == IF a >= b THEN a ELSE b
Abs(a) == IF a >= 0 THEN a ELSE 0 - a

\* f32::max(0.0).min(1.0)
Clamp01(x) == Min(Max(x, 0), SCALE)

\* product of two fixed-point scores
Mul(a, b) == (a * b) \div SCALE

\* sum of s[lo..hi], by halves
RECURSIVE SumRange(_, _, _)
SumRange(s, lo, hi) ==
    IF lo > hi THEN 0
    ELSE IF lo = hi THEN s[lo]
    ELSE LET mid == (lo + hi) \div 2
         IN  SumRange(s, lo, mid) + SumRange(s, mid + 1, hi)

SumSeq(s) == SumRange(s, 1, Len(s))

\* sum of the squares of s[lo..hi], by halves
RECURSIVE SumSqRange(_, _, _)
SumSqRange(s, lo, hi) ==
    IF lo > hi THEN 0
    ELSE IF lo = hi THEN s[lo] * s[lo]
    ELSE LET mid == (lo + hi) \div 2
         IN  SumSqRange(s, lo, mid) + SumSqRange(s, mid + 1, hi)

SumSq(s) == SumSqRange(s, 1, Len(s))

\* the last n elements of s (all of s when it is shorter)
LastN(s, n) == IF Len(s) <= n THEN s ELSE SubSeq(s, Len(s) - n + 1, Len(s))

\* floor of the square root, by bisection on [lo, hi]
RECURSIVE ISqrtIn(_, _, _)
ISqrtIn(v, lo, hi) ==
    IF lo >= hi THEN lo
    ELSE LET mid == (lo + hi + 1) \div 2
         IN  IF mid * mid <= v THEN ISqrtIn(v, mid, hi) ELSE ISqrtIn(v, lo, mid - 1)

ISqrt(v) == ISqrtIn(v, 0, 46340)

\* scale v by 4^k until it is at least 2^29, keeping the pair <<v * 4^k, 2^k>>
RECURSIVE ScaleUp(_, _)
ScaleUp(v, p) == IF v = 0 \/ v >= 536870912 THEN <<v, p>> ELSE ScaleUp(4 * v, 2 * p)

\* std_dev / mean of a non-empty sequence with positive sum, in fixed point:
\* variance = (n*sum(x^2) - sum(x)^2) / n^2 and mean = sum(x) / n, so
\* sqrt(variance) / mean = sqrt(n*sum(x^2) - sum(x)^2) / sum(x)
StdOverMean(s) ==
    LET n  == Len(s)
        sm == SumSeq(s)
        v  == n * SumSq(s) - sm * sm
        sc == ScaleUp(v, 1)
    IN  (ISqrt(sc[1]) * SCALE) \div (sm * sc[2])

\* (-0.2 * context_switches).exp()
RECURSIVE ExpDecay(_)
ExpDecay(k) == IF k = 0 THEN SCALE ELSE Mul(ExpDecay(k - 1), 8187)

\* natural logarithm of an integer n >= 1, in fixed point:
\* ln(x) = k*ln(2) + 2*atanh((m-1)/(m+1)) with x = m * 2^k, 1 <= m < 2
RECURSIVE LnFix(_)
LnFix(x) ==
    IF x >= 2 * SCALE THEN 6931 + LnFix(x \div 2)
    ELSE LET z  == ((x - SCALE) * SCALE) \div (x + SCALE)
             z2 == Mul(z, z)
             z3 == Mul(z2, z)
             z5 == Mul(z3, z2)
         IN  2 * (z + z3 \div 3 + z5 \div 5)

Ln(n) == LnFix(n * SCALE)

----------------------------------------------------------------------------
(* services/flow.rs: FlowDetectionEngine *)

None == <<>>
Some(v) == <<v>>

\* FlowDetectionEngine::new() called when the clock reads t
NewEngine(t) ==
    [ keystroke_buffer   |-> <<>>,
      flow_start_time    |-> None,
      current_intensity  |-> 0,
      ml_engine          |-> [model |-> None],
      last_analysis      |-> t,
      flow_session_count |-> 0,
      total_flow_time    |-> 0,
      confidence_history |-> <<>> ]

\* PushInterval evicting the newest value instead of the oldest (pop_back)
PushInterval_PopBack(buf, x) ==
    LET b == Append(buf, x)
    IN  IF Len(b) > BufferCap THEN SubSeq(b, 1, Len(b) - 1) ELSE b

\* push_back one interval, pop_front when the length exceeds the capacity
PushInterval(buf, x) ==
    LET b == Append(buf, x)
    IN  IF Len(b) > BufferCap THEN Tail(b) ELSE b

\* the loop `for interval in intervals { push }` over xs[lo..hi], in order:
\* the first half of the range, then the second half on the buffer it leaves
RECURSIVE PushRange(_, _, _, _)
PushRange(buf, xs, lo, hi) ==
    IF lo > hi THEN buf
    ELSE IF lo = hi THEN PushInterval(buf, xs[lo])
    ELSE LET mid == (lo + hi) \div 2
             first == PushRange(buf, xs, lo, mid)
         IN  IF Len(first) <= BufferCap THEN PushRange(first, xs, mid + 1, hi)
             ELSE first

PushIntervals(buf, xs) == PushRange(buf, xs, 1, Len(xs))

calculate_coefficient_of_variation(intervals) ==
    IF Len(intervals) < 2 THEN SCALE
    ELSE IF SumSeq(intervals) > 0 THEN StdOverMean(intervals)
    ELSE SCALE

\* analyze_keystroke_rhythm without the final min(1.0)
analyze_keystroke_rhythm_NoCap(intervals) ==
    IF Len(intervals) < 3 THEN 0
    ELSE IF SumSeq(intervals) = 0 THEN 0
    ELSE
      LET n  == Len(intervals)
          sm == SumSeq(intervals)
          coefficient_of_variation == StdOverMean(intervals)
          score ==
            IF 80 * n <= sm /\ sm <= 200 * n /\ coefficient_of_variation < 3000 THEN 9500
            ELSE IF 50 * n <= sm /\ sm <= 300 * n /\ coefficient_of_variation < 5000 THEN 8000
            ELSE IF 30 * n <= sm /\ sm <= 500 * n /\ coefficient_of_variation < 8000 THEN 6000
            ELSE 2000
          sustained_bonus ==
            IF n > 20
            THEN LET recent_cv == calculate_coefficient_of_variation(LastN(intervals, 20))
                 IN  IF recent_cv < coefficient_of_variation - 1000 THEN 1000 ELSE 0
            ELSE 0
      IN  score + sustained_bonus

analyze_keystroke_rhythm(intervals) ==
    IF Len(intervals) < 3 THEN 0
    ELSE IF SumSeq(intervals) = 0 THEN 0
    ELSE
      LET n  == Len(intervals)
          sm == SumSeq(intervals)
          coefficient_of_variation == StdOverMean(intervals)
          score ==
            IF 80 * n <= sm /\ sm <= 200 * n /\ coefficient_of_variation < 3000 THEN 9500
            ELSE IF 50 * n <= sm /\ sm <= 300 * n /\ coefficient_of_variation < 5000 THEN 8000
            ELSE IF 30 * n <= sm /\ sm <= 500 * n /\ coefficient_of_variation < 8000 THEN 6000
            ELSE 2000
          sustained_bonus ==
            IF n > 20
            THEN LET recent_cv == calculate_coefficient_of_variation(LastN(intervals, 20))
                 IN  IF recent_cv < coefficient_of_variation - 1000 THEN 1000 ELSE 0
            ELSE 0
      IN  Min(score + sustained_bonus, SCALE)

\* calculate_focus_score taking the bonus from the accumulated flow time
calculate_focus_score_FlowTime(e, context_switches, t) ==
    LET base_score == ExpDecay(context_switches)
        time_since_last == e.total_flow_time
        time_bonus == IF time_since_last > 10000
                      THEN Min((time_since_last * SCALE) \div 60000, 2000)
                      ELSE 0
    IN  Min(base_score + time_bonus, SCALE)

\* e is the engine, t the clock at the call
calculate_focus_score(e, context_switches, t) ==
    LET base_score == ExpDecay(context_switches)
        time_since_last == t - e.last_analysis
        time_bonus == IF time_since_last > 10000
                      THEN Min((time_since_last * SCALE) \div 60000, 2000)
                      ELSE 0
    IN  Min(base_score + time_bonus, SCALE)

\* iter().rev()
Reverse(fwd) == [i \in 1..Len(fwd) |-> fwd[Len(fwd) + 1 - i]]

\* calculate_consistency_score reading this call's intervals instead of the
\* buffer
calculate_consistency_score_OwnData(e, data) ==
    IF Len(data.keystroke_intervals) < 10 THEN 5000
    ELSE
      LET recent_intervals == Reverse(LastN(data.keystroke_intervals, 20))
          all_intervals == data.keystroke_intervals
          recent_cv == calculate_coefficient_of_variation(recent_intervals)
          overall_cv == calculate_coefficient_of_variation(all_intervals)
          consistency_score == IF recent_cv < overall_cv
                               THEN Max(SCALE - recent_cv, 0)
                               ELSE Max(SCALE - overall_cv, 0)
          mods == data.file_modifications
          dur == data.window_focus_duration
          mod_consistency ==
            IF mods > 0
            THEN IF dur > 0 /\ 2000 * mods >= dur /\ 1000 * mods <= 2 * dur THEN 2000
                 ELSE IF dur > 0 /\ 10000 * mods >= dur /\ 2000 * mods <= dur THEN 1000
                 ELSE 0
            ELSE 0
      IN  Min(consistency_score + mod_consistency, SCALE)

calculate_consistency_score(e, data) ==
    IF Len(e.keystroke_buffer) < 10 THEN 5000
    ELSE
      LET recent_intervals == Reverse(LastN(e.keystroke_buffer, 20))
          all_intervals == e.keystroke_buffer
          recent_cv == calculate_coefficient_of_variation(recent_intervals)
          overall_cv == calculate_coefficient_of_variation(all_intervals)
          consistency_score == IF recent_cv < overall_cv
                               THEN Max(SCALE - recent_cv, 0)
                               ELSE Max(SCALE - overall_cv, 0)
          mods == data.file_modifications
          dur == data.window_focus_duration
          \* mod_rate = mods / dur * 1000; a zero duration gives +inf
          mod_consistency ==
            IF mods > 0
            THEN IF dur > 0 /\ 2000 * mods >= dur /\ 1000 * mods <= 2 * dur THEN 2000
                 ELSE IF dur > 0 /\ 10000 * mods >= dur /\ 2000 * mods <= dur THEN 1000
                 ELSE 0
            ELSE 0
      IN  Min(consistency_score + mod_consistency, SCALE)

calculate_error_penalty(error_events) ==
    IF error_events = 0 THEN 0 ELSE Ln(error_events) \div 10

\* calculate_velocity_score deriving the velocity from the intervals whenever
\* there are any
calculate_velocity_score_IntervalsFirst(data) ==
    IF data.keystroke_intervals # <<>>
    THEN LET n  == Len(data.keystroke_intervals)
             sm == SumSeq(data.keystroke_intervals)
         IN  IF sm > 0 /\ 200 * sm <= 60000 * n /\ 60000 * n <= 400 * sm THEN 9000
             ELSE IF sm > 0 /\ 100 * sm <= 60000 * n /\ 60000 * n <= 600 * sm THEN 7000
             ELSE 5000
    ELSE IF data.typing_velocity # None
    THEN LET velocity == data.typing_velocity[1]
         IN  IF 200 <= velocity /\ velocity <= 400 THEN 9000
             ELSE IF 100 <= velocity /\ velocity <= 200 THEN 7000
             ELSE IF 400 <= velocity /\ velocity <= 600 THEN 8000
             ELSE 5000
    ELSE 5000

calculate_velocity_score(data) ==
    IF data.typing_velocity # None
    THEN LET velocity == data.typing_velocity[1]
         IN  IF 200 <= velocity /\ velocity <= 400 THEN 9000
             ELSE IF 100 <= velocity /\ velocity <= 200 THEN 7000
             ELSE IF 400 <= velocity /\ velocity <= 600 THEN 8000
             ELSE 5000
    ELSE IF data.keystroke_intervals # <<>>
    THEN LET n  == Len(data.keystroke_intervals)
             sm == SumSeq(data.keystroke_intervals)
             \* chars_per_minute = 60000 / (sm / n); sm = 0 gives +inf
         IN  IF sm > 0 /\ 200 * sm <= 60000 * n /\ 60000 * n <= 400 * sm THEN 9000
             ELSE IF sm > 0 /\ 100 * sm <= 60000 * n /\ 60000 * n <= 600 * sm THEN 7000
             ELSE 5000
    ELSE 5000

\* calculate_flow_duration restarting the session clock on a continuing call
calculate_flow_duration_Restart(e, is_in_flow, t) ==
    IF is_in_flow /\ e.flow_start_time = None
    THEN [engine |-> [e EXCEPT !.flow_start_time = Some(t)], duration |-> 0]
    ELSE IF is_in_flow
    THEN [engine |-> [e EXCEPT !.flow_start_time = Some(t)],
          duration |-> t - e.flow_start_time[1]]
    ELSE IF e.flow_start_time # None
    THEN LET duration == t - e.flow_start_time[1]
         IN  [engine |-> [e EXCEPT !.total_flow_time = @ + duration,
                                   !.flow_session_count = @ + 1,
                                   !.flow_start_time = None],
              duration |-> duration]
    ELSE [engine |-> e, duration |-> 0]

\* calculate_flow_duration leaving the start timestamp in place when the
\* session ends
calculate_flow_duration_KeepStart(e, is_in_flow, t) ==
    IF is_in_flow /\ e.flow_start_time = None
    THEN [engine |-> [e EXCEPT !.flow_start_time = Some(t)], duration |-> 0]
    ELSE IF is_in_flow
    THEN [engine |-> e, duration |-> t - e.flow_start_time[1]]
    ELSE IF e.flow_start_time # None
    THEN LET duration == t - e.flow_start_time[1]
         IN  [engine |-> [e EXCEPT !.total_flow_time = @ + duration,
                                   !.flow_session_count = @ + 1],
              duration |-> duration]
    ELSE [engine |-> e, duration |-> 0]

\* calculate_flow_duration counting a session on every continuing call
calculate_flow_duration_CountContinue(e, is_in_flow, t) ==
    IF is_in_flow /\ e.flow_start_time = None
    THEN [engine |-> [e EXCEPT !.flow_start_time = Some(t)], duration |-> 0]
    ELSE IF is_in_flow
    THEN [engine |-> [e EXCEPT !.flow_session_count = @ + 1],
          duration |-> t - e.flow_start_time[1]]
    ELSE IF e.flow_start_time # None
    THEN LET duration == t - e.flow_start_time[1]
         IN  [engine |-> [e EXCEPT !.total_flow_time = @ + duration,
                                   !.flow_session_count = @ + 1,
                                   !.flow_start_time = None],
              duration |-> duration]
    ELSE [engine |-> e, duration |-> 0]

\* calculate_flow_duration opening a session on every call that finds none
calculate_flow_duration_StartAlways(e, is_in_flow, t) ==
    IF e.flow_start_time = None
    THEN [engine |-> [e EXCEPT !.flow_start_time = Some(t)], duration |-> 0]
    ELSE IF is_in_flow
    THEN [engine |-> e, duration |-> t - e.flow_start_time[1]]
    ELSE LET duration == t - e.flow_start_time[1]
         IN  [engine |-> [e EXCEPT !.total_flow_time = @ + duration,
                                   !.flow_session_count = @ + 1,
                                   !.flow_start_time = None],
              duration |-> duration]

\* returns the engine after the call and the reported duration
calculate_flow_duration(e, is_in_flow, t) ==
    IF is_in_flow /\ e.flow_start_time = None
    THEN [engine |-> [e EXCEPT !.flow_start_time = Some(t)], duration |-> 0]
    ELSE IF is_in_flow
    THEN [engine |-> e, duration |-> t - e.flow_start_time[1]]
    ELSE IF e.flow_start_time # None
    THEN LET duration == t - e.flow_start_time[1]
         IN  [engine |-> [e EXCEPT !.total_flow_time = @ + duration,
                                   !.flow_session_count = @ + 1,
                                   !.flow_start_time = None],
              duration |-> duration]
    ELSE [engine |-> e, duration |-> 0]

\* get_average_recent_confidence averaging the whole history
get_average_recent_confidence_All(e) ==
    IF Len(e.confidence_history) < 3 THEN None
    ELSE Some(SumSeq(e.confidence_history) \div Len(e.confidence_history))

get_average_recent_confidence(e) ==
    IF Len(e.confidence_history) < 3 THEN None
    ELSE LET recent == Reverse(LastN(e.confidence_history, 5))
         IN  Some(SumSeq(recent) \div Len(recent))

\* calculate_confidence with a stability factor that rewards the distance
\* from the recent mean (1 + 0.5*|c - avg|)
calculate_confidence_Boost(e, score, data) ==
    LET data_quality == IF Len(data.keystroke_intervals) >= 10 THEN SCALE
                        ELSE IF Len(data.keystroke_intervals) >= 5 THEN 8000
                        ELSE 5000
        c1 == Mul(score, data_quality)
        avg == get_average_recent_confidence(e)
        c2 == IF avg # None
              THEN LET stability_factor == SCALE + Mul(Abs(c1 - avg[1]), 5000)
                   IN  Mul(c1, stability_factor)
              ELSE c1
    IN  Clamp01(c2)

calculate_confidence(e, score, data) ==
    LET data_quality == IF Len(data.keystroke_intervals) >= 10 THEN SCALE
                        ELSE IF Len(data.keystroke_intervals) >= 5 THEN 8000
                        ELSE 5000
        c1 == Mul(score, data_quality)
        avg == get_average_recent_confidence(e)
        c2 == IF avg # None
              THEN LET stability_factor == SCALE - Mul(Abs(c1 - avg[1]), 5000)
                   IN  Mul(c1, stability_factor)
              ELSE c1
    IN  Clamp01(c2)

\* update_flow_tracking stamping the session start along with last_analysis
update_flow_tracking_MarkStart(e, is_in_flow, intensity, t) ==
    [e EXCEPT !.current_intensity = intensity, !.last_analysis = t,
              !.flow_start_time = Some(t)]

update_flow_tracking(e, is_in_flow, intensity, t) ==
    [e EXCEPT !.current_intensity = intensity, !.last_analysis = t]

\* PushConfidence evicting the newest value instead of the oldest (pop_back)
PushConfidence_PopBack(h, c) ==
    LET b == Append(h, c)
    IN  IF Len(b) > ConfidenceCap THEN SubSeq(b, 1, Len(b) - 1) ELSE b

\* confidence_history.push_back(confidence), pop_front beyond the capacity
PushConfidence(h, c) ==
    LET b == Append(h, c)
    IN  IF Len(b) > ConfidenceCap THEN Tail(b) ELSE b

\* generate_recommendations with the reinforcement message pushed whenever
\* the score is not low
generate_recommendations_Praise(score, data, metrics) ==
    (IF score < 4000 THEN <<"break">> ELSE <<>>)
    \o (IF data.context_switches > 5 THEN <<"focus_mode">> ELSE <<>>)
    \o (IF data.error_events > 3 THEN <<"slow_down">> ELSE <<>>)
    \o (IF metrics.rhythm_score < 5000 THEN <<"steady_rhythm">> ELSE <<>>)
    \o (IF data.window_focus_duration < 300000 THEN <<"longer_blocks">> ELSE <<>>)
    \o (IF metrics.velocity_score < 6000 THEN <<"warm_up">> ELSE <<>>)
    \o (IF score >= 4000 THEN <<"great_focus">> ELSE <<>>)

\* the recommendation messages, named by their rule, in the order pushed
generate_recommendations(score, data, metrics) ==
    LET recs ==
          (IF score < 4000 THEN <<"break">> ELSE <<>>)
          \o (IF data.context_switches > 5 THEN <<"focus_mode">> ELSE <<>>)
          \o (IF data.error_events > 3 THEN <<"slow_down">> ELSE <<>>)
          \o (IF metrics.rhythm_score < 5000 THEN <<"steady_rhythm">> ELSE <<>>)
          \o (IF data.window_focus_duration < 300000 THEN <<"longer_blocks">> ELSE <<>>)
          \o (IF metrics.velocity_score < 6000 THEN <<"warm_up">> ELSE <<>>)
    IN  IF recs = <<>> THEN <<"great_focus">> ELSE recs

----------------------------------------------------------------------------
(* services/ml.rs: MLInferenceEngine *)

\* rule_based_prediction dampening a sum of exactly 0.3 as well
rule_based_prediction_DampenAt03(features) ==
    LET base_score == (35 * features[1] + 25 * features[2] + 20 * features[3]
                       + 10 * (SCALE - features[4]) + 10 * features[5]) \div 100
    IN  Clamp01(IF base_score > 8000 THEN base_score + (base_score - 8000) \div 2
                ELSE IF base_score <= 3000 THEN (base_score * 8) \div 10
                ELSE base_score)

\* rule_based_prediction without the final clamp
rule_based_prediction_NoClamp(features) ==
    LET base_score == (35 * features[1] + 25 * features[2] + 20 * features[3]
                       + 10 * (SCALE - features[4]) + 10 * features[5]) \div 100
    IN  IF base_score > 8000 THEN base_score + (base_score - 8000) \div 2
        ELSE IF base_score < 3000 THEN (base_score * 8) \div 10
        ELSE base_score

\* features = [rhythm, focus, consistency, error_penalty, velocity] as the
\* function destructures them
rule_based_prediction(features) ==
    LET rhythm_score == features[1]
        focus_score == features[2]
        consistency_score == features[3]
        error_penalty == features[4]
        velocity_score == features[5]
        base_score == (35 * rhythm_score + 25 * focus_score + 20 * consistency_score
                       + 10 * (SCALE - error_penalty) + 10 * velocity_score) \div 100
        adjusted_score == IF base_score > 8000 THEN base_score + (base_score - 8000) \div 2
                          ELSE IF base_score < 3000 THEN (base_score * 8) \div 10
                          ELSE base_score
    IN  Clamp01(adjusted_score)

\* predict_flow_state with the model check inverted: the tensor path is taken
\* when no model is attached
predict_flow_state_Inverted(ml, features, inference) ==
    IF ml.model # None THEN [ok |-> TRUE, value |-> rule_based_prediction(features)]
    ELSE IF ~inference.ok THEN [ok |-> FALSE, value |-> 0]
    ELSE [ok |-> TRUE, value |-> Clamp01(inference.prediction)]

\* predict_flow_state that answers a failed inference with the rule-based score
predict_flow_state_Fallback(ml, features, inference) ==
    IF ml.model = None \/ ~inference.ok
    THEN [ok |-> TRUE, value |-> rule_based_prediction(features)]
    ELSE [ok |-> TRUE, value |-> Clamp01(inference.prediction)]

\* MLInferenceEngine::initialize_model: a network of zero weights is attached
initialize_model(ml) == [ml EXCEPT !.model = Some("zeros")]

\* inference is what the candle tensor pipeline yields when a model is
\* attached: [ok |-> FALSE] for a failure in tensor creation, forward pass or
\* extraction, [ok |-> TRUE, prediction |-> p] otherwise
predict_flow_state(ml, features, inference) ==
    IF ml.model = None THEN [ok |-> TRUE, value |-> rule_based_prediction(features)]
    ELSE IF ~inference.ok THEN [ok |-> FALSE, value |-> 0]
    ELSE [ok |-> TRUE, value |-> Clamp01(inference.prediction)]

\* Sensitivity ignoring the caller's preferences
Sensitivity_DefaultOnly(user_preferences) == DefaultSensitivity

\* the score threshold of a call: the caller's sensitivity_level or 0.7
Sensitivity(user_preferences) ==
    IF user_preferences # None THEN user_preferences[1].sensitivity_level
    ELSE DefaultSensitivity

NoMetrics ==
    [rhythm_score |-> 0, focus_score |-> 0, consistency_score |-> 0,
     error_penalty |-> 0, velocity_score |-> 0]

\* Err(AppError::MachineLearning(..))
ErrResult ==
    [ok |-> FALSE, is_in_flow |-> FALSE, flow_intensity |-> 0, flow_duration_ms |-> 0,
     confidence |-> 0, recommendations |-> <<>>, metrics |-> NoMetrics]

\* analyze_flow_state on engine e at clock t: the engine after the call and
\* the value returned.  One call reads the clock several times within well
\* under a millisecond; every read of one call is t.
analyze_flow_state(e, data, user_preferences, t, inference) ==
    LET e1 == [e EXCEPT !.keystroke_buffer =
                           PushIntervals(e.keystroke_buffer, data.keystroke_intervals)]
        rhythm_score == analyze_keystroke_rhythm(data.keystroke_intervals)
        focus_score == calculate_focus_score(e1, data.context_switches, t)
        consistency_score == calculate_consistency_score(e1, data)
        error_penalty == calculate_error_penalty(data.error_events)
        velocity_score == calculate_velocity_score(data)
        predicted == predict_flow_state(e1.ml_engine,
                        <<rhythm_score, focus_score, consistency_score,
                          SCALE - error_penalty, velocity_score>>, inference)
    IN  IF ~predicted.ok THEN [engine |-> e1, result |-> ErrResult]
        ELSE
          LET combined_score == predicted.value
              sensitivity == Sensitivity(user_preferences)
              is_in_flow == combined_score > sensitivity
              fd == calculate_flow_duration(e1, is_in_flow, t)
              e2 == fd.engine
              confidence == calculate_confidence(e2, combined_score, data)
              e3 == update_flow_tracking(e2, is_in_flow, combined_score, t)
              e4 == [e3 EXCEPT !.confidence_history = PushConfidence(@, confidence)]
              metrics == [rhythm_score |-> rhythm_score, focus_score |-> focus_score,
                          consistency_score |-> consistency_score,
                          error_penalty |-> error_penalty,
                          velocity_score |-> velocity_score]
          IN  [engine |-> e4,
               result |-> [ok |-> TRUE,
                           is_in_flow |-> is_in_flow,
                           flow_intensity |-> combined_score,
                           flow_duration_ms |-> fd.duration,
                           confidence |-> confidence,
                           recommendations |->
                               generate_recommendations(combined_score, data, metrics),
                           metrics |-> metrics]]

\* the end of analyze_flow_state with the budget enforced: a slow analysis is
\* answered with an error
finish_analysis_Strict(out, elapsed_us) ==
    IF elapsed_us > LatencyBudgetUs
    THEN [engine |-> out.engine, warned |-> TRUE, analysis_time_us |-> elapsed_us,
          result |-> ErrResult]
    ELSE [engine |-> out.engine, warned |-> FALSE, analysis_time_us |-> elapsed_us,
          result |-> out.result]

\* the end of analyze_flow_state: `out` is the analysis so far, elapsed_us is
\* start_time.elapsed() in microseconds (analysis_time * 1000); the warning is
\* logged when analysis_time > 1.0 and analysis_time_ms is filled in
finish_analysis(out, elapsed_us) ==
    [engine |-> out.engine,
     warned |-> out.result.ok /\ elapsed_us > LatencyBudgetUs,
     analysis_time_us |-> IF out.result.ok THEN elapsed_us ELSE 0,
     result |-> out.result]

get_session_stats(e) == <<e.flow_session_count, e.total_flow_time>>

\* reset_session_stats zeroing the counters but leaving the session start
reset_session_stats_KeepStart(e) ==
    [e EXCEPT !.flow_session_count = 0, !.total_flow_time = 0]

reset_session_stats(e) ==
    [e EXCEPT !.flow_session_count = 0, !.total_flow_time = 0, !.flow_start_time = None]

----------------------------------------------------------------------------
(* Inputs *)

\* models/flow.rs FlowStateData, the fields the engine reads
FlowStateData(iv, cs, err, dur, mods, vel) ==
    [keystroke_intervals |-> iv, context_switches |-> cs, error_events |-> err,
     window_focus_duration |-> dur, file_modifications |-> mods, typing_velocity |-> vel]

UserFlowPreferences(s) == [sensitivity_level |-> s]

\* the degenerate sample of test_error_handling
DEmpty == FlowStateData(<<>>, 0, 0, 0, 0, None)
\* five equal intervals, the other fields as in prop_keystroke_analysis_consistency
DFive == FlowStateData(<<100, 100, 100, 100, 100>>, 1, 0, 20000, 2, Some(200))
\* 25 intervals whose last 20 are steady, many errors: the top of the scale
DPeak == FlowStateData(<<60, 180, 60, 180, 60>> \o [i \in 1..20 |-> 120],
                       0, 1000, 10000, 10, Some(250))
\* one sample longer than the ring buffer, every position recognisable
DWide == FlowStateData([i \in 1..101 |-> 80 + (((i - 1) * 13) % 220)], 2, 0, 30000, 5, None)
\* erratic, slow typing with many context switches and errors: the bottom of
\* the scale
DLow == FlowStateData(<<10, 2000, 10>>, 10, 20, 400000, 0, None)

\* an undisturbed sample from a focus block of ten minutes
DDeep == FlowStateData(<<120, 120, 120, 120, 120, 120>>, 0, 0, 600000, 3, Some(220))

\* ten intervals in a steady alternation, one error
DTen == FlowStateData(<<110, 130, 110, 130, 110, 130, 110, 130, 110, 130>>,
                      0, 1, 60000, 1, None)

Samples == {DEmpty, DFive, DPeak, DWide, DLow, DDeep}

SensitivityLevels == {3000}

\* what the tensor pipeline would yield; read only when a model is attached
Inferences == {[ok |-> FALSE, prediction |-> 0]}

\* the preferences a caller may send with `data`: none, a fixed level, or a
\* level equal to the score the call computes
PreferenceChoices(e, data, t) ==
    LET score == analyze_flow_state(e, data, None, t, [ok |-> FALSE, prediction |-> 0])
                     .result.flow_intensity
    IN  {None} \cup {Some(UserFlowPreferences(s)) : s \in SensitivityLevels \cup {score}}

----------------------------------------------------------------------------
(* utils/auth.rs: RateLimiter, made by RateLimiter::new(MaxRequests, WindowMs) *)

Identifiers == {"user1", "user2"}

\* Vec::retain(|&time| now.duration_since(time) < self.window_duration)
RetainRecent(times, t) == SelectSeq(times, LAMBDA time : t - time < WindowMs)

\* check_rate_limit that also records the calls it rejects
check_rate_limit_RecordRejected(rq, identifier, t) ==
    LET user_requests == IF rq[identifier] = None THEN <<>> ELSE rq[identifier][1]
        kept == RetainRecent(user_requests, t)
    IN  [requests |-> [rq EXCEPT ![identifier] = Some(Append(kept, t))],
         allowed |-> Len(kept) < MaxRequests]

\* check_rate_limit at clock t, under the mutex: the map after the call and
\* the answer
check_rate_limit(rq, identifier, t) ==
    LET user_requests == IF rq[identifier] = None THEN <<>> ELSE rq[identifier][1]
        kept == RetainRecent(user_requests, t)
    IN  IF Len(kept) >= MaxRequests
        THEN [requests |-> [rq EXCEPT ![identifier] = Some(kept)], allowed |-> FALSE]
        ELSE [requests |-> [rq EXCEPT ![identifier] = Some(Append(kept, t))],
              allowed |-> TRUE]

\* cleanup_old_entries at clock t: entries left empty are removed
cleanup_old_entries(rq, t) ==
    [identifier \in DOMAIN rq |->
        IF rq[identifier] = None THEN None
        ELSE IF RetainRecent(rq[identifier][1], t) = <<>> THEN None
        ELSE Some(RetainRecent(rq[identifier][1], t))]

----------------------------------------------------------------------------
(* services/encryption.rs: EncryptionService.  A cipher is named by its    *)
(* master key; a ciphertext records the key it was made with and opens     *)
(* only under that key (AES-256-GCM authenticates).  Nonces are random and *)
(* travel with the ciphertext; created_at is not read back.                *)

\* format!("key_{}", chrono::Utc::now().timestamp()): the clock in seconds
KeyId(t) == t \div 1000

\* EncryptionService::new(master_key) at clock t
NewService(master_key, t) ==
    [cipher |-> master_key, key_id |-> KeyId(t), rotation_keys |-> <<>>]

encrypt_sensitive_data(svc, plain) ==
    [data |-> [key |-> svc.cipher, plain |-> plain], key_id |-> svc.key_id]

decrypt_sensitive_data(svc, encrypted_data) ==
    IF encrypted_data.key_id # svc.key_id
       /\ encrypted_data.key_id \notin DOMAIN svc.rotation_keys
    THEN [ok |-> FALSE, value |-> "key_not_found"]
    ELSE LET cipher == IF encrypted_data.key_id = svc.key_id THEN svc.cipher
                       ELSE svc.rotation_keys[encrypted_data.key_id]
         IN  IF cipher = encrypted_data.data.key
             THEN [ok |-> TRUE, value |-> encrypted_data.data.plain]
             ELSE [ok |-> FALSE, value |-> "decryption_failed"]

\* HashMap::insert
MapInsert(m, k, v) == [x \in DOMAIN m \cup {k} |-> IF x = k THEN v ELSE m[x]]

\* rotate_key(new_master_key) at clock t
rotate_key(svc, new_master_key, t) ==
    [cipher |-> new_master_key,
     key_id |-> KeyId(t),
     rotation_keys |-> MapInsert(svc.rotation_keys, svc.key_id, svc.cipher)]

----------------------------------------------------------------------------
(* Spec: one engine, called sequentially *)

NoData == FlowStateData(<<>>, 0, 0, 0, 0, None)

Users == 1..NumUsers
Procs == 1..NumCalls

\* the locals of a detect_flow_state call that has not started
NoCall ==
    [user_id |-> 0, flow_data |-> NoData, user_preferences |-> None,
     flow_engine_arc |-> None, outcome |-> "none", flow_result |-> ErrResult,
     start_time |-> 0, db_task |-> FALSE, pushed |-> FALSE, ws_ref |-> FALSE]

\* the websocket_connection tasks; one that has not been upgraded yet
Conns == 1..NumConns

NoConn ==
    [at |-> "idle", user_id |-> 0, reg |-> 0, last_pong |-> 0, next_tick |-> 0,
     receiver |-> FALSE, owed |-> 0, why |-> "none"]

\* the session ids of active_sessions; a cleanup_idle_sessions call that has
\* not started
SessionIds == 1..NumSessions

NoCleanup ==
    [at |-> "idle", runs |-> 0, cutoff_time |-> 0, to_remove |-> <<>>, removed |-> <<>>]

Init ==
    /\ engine = NewEngine(0)
    /\ now = 0
    /\ ticks = 0
    /\ hist = <<>>
    /\ twin = NewEngine(0)
    /\ twinHist = <<>>
    /\ flow_engines = [u \in Users |-> None]
    /\ arcs = <<>>
    /\ pc = [p \in Procs |-> "idle"]
    /\ call = [p \in Procs |-> NoCall]
    /\ acquired = <<>>
    /\ websocket_connections = [u \in Users |-> None]
    /\ requests = [identifier \in Identifiers |-> None]
    /\ rateLog = <<>>
    /\ enc = NewService(1, 0)
    /\ vault = <<>>
    /\ decLog = <<>>
    /\ ruleLog = <<>>
    /\ outbox = [u \in Users |-> <<>>]
    /\ conns = [c \in Conns |-> NoConn]
    /\ active_sessions = [session_id \in SessionIds |-> None]
    /\ cleaner = NoCleanup
    /\ sumLog = <<>>

Analyze(data, user_preferences, inference) ==
    LET out == analyze_flow_state(engine, data, user_preferences, now, inference)
    IN  /\ engine' = out.engine
        /\ hist' = Append(hist, [op |-> "analyze", data |-> data,
                                 prefs |-> user_preferences, at |-> now,
                                 pre |-> engine, post |-> out.engine,
                                 result |-> out.result])
        /\ UNCHANGED <<now, ticks, twin, twinHist, regVars, svcVars>>

AnalyzeAny ==
    /\ Len(hist) < MaxCalls
    /\ \E data \in Samples :
         \E user_preferences \in PreferenceChoices(engine, data, now) :
           \E inference \in Inferences : Analyze(data, user_preferences, inference)

Tick ==
    /\ ticks < MaxTicks
    /\ now' = now + TickMs
    /\ ticks' = ticks + 1
    /\ UNCHANGED <<engine, hist, twin, twinHist, regVars, svcVars>>

Next ==
    \/ AnalyzeAny
    \/ Tick

Spec == Init /\ [][Next]_vars

----------------------------------------------------------------------------
(* SpecSession: one engine, longer runs of calls that enter and leave flow, *)
(* with reset_session_stats                                                 *)

SessionSamples == {DEmpty, DFive}

AnalyzeSession ==
    /\ Len(hist) < MaxSessionCalls
    /\ \E data \in SessionSamples :
         \E inference \in Inferences : Analyze(data, None, inference)

Reset ==
    /\ Len(hist) < MaxSessionCalls
    /\ engine' = reset_session_stats(engine)
    /\ hist' = Append(hist, [op |-> "reset", data |-> NoData, prefs |-> None,
                             at |-> now, pre |-> engine, post |-> engine',
                             result |-> ErrResult])
    /\ UNCHANGED <<now, ticks, twin, twinHist, regVars, svcVars>>

NextSession ==
    \/ AnalyzeSession
    \/ Reset
    \/ Tick

SpecSession == Init /\ [][NextSession]_vars

----------------------------------------------------------------------------
(* SpecPair: two engines of one process, called independently of each other *)

PairSamples == {DFive}

PairSensitivityLevels == {SCALE}

\* no preferences, or the highest sensitivity, which no score exceeds
PairPreferences ==
    {None} \cup {Some(UserFlowPreferences(s)) : s \in PairSensitivityLevels}

Engines == {"engine", "twin"}

\* analyze_flow_state on one of the two engines
AnalyzeOn(which, data, user_preferences, inference) ==
    LET e     == IF which = "engine" THEN engine ELSE twin
        out   == analyze_flow_state(e, data, user_preferences, now, inference)
        entry == [op |-> "analyze", data |-> data, prefs |-> user_preferences,
                  at |-> now, pre |-> e, post |-> out.engine, result |-> out.result]
    IN  IF which = "engine"
        THEN /\ Len(hist) < MaxPairCalls
             /\ engine' = out.engine
             /\ hist' = Append(hist, entry)
             /\ UNCHANGED <<twin, twinHist, now, ticks, regVars, svcVars>>
        ELSE /\ Len(twinHist) < MaxPairCalls
             /\ twin' = out.engine
             /\ twinHist' = Append(twinHist, entry)
             /\ UNCHANGED <<engine, hist, now, ticks, regVars, svcVars>>

AnalyzePair ==
    \E which \in Engines :
      \E data \in PairSamples :
        \E user_preferences \in PairPreferences :
          \E inference \in Inferences : AnalyzeOn(which, data, user_preferences, inference)

NextPair ==
    \/ AnalyzePair
    \/ Tick

SpecPair == Init /\ [][NextPair]_vars

----------------------------------------------------------------------------
(* SpecReg: state.rs and handlers/flow.rs, concurrent detect_flow_state calls *)

RegSamples == {DEmpty, DFive, DLow}

\* the validator attributes of FlowStateData
Validate(data) ==
    /\ Len(data.keystroke_intervals) >= 1
    /\ Len(data.keystroke_intervals) <= 1000
    /\ data.context_switches <= 1000
    /\ data.error_events <= 1000
    /\ data.file_modifications <= 10000

\* the request arrives: claims.user_id and the payload; a payload that fails
\* validation is answered with AppError::Validation
Enter(p) ==
    /\ pc[p] = "idle"
    /\ \E u \in Users : \E data \in RegSamples :
         IF Validate(data)
         THEN /\ call' = [call EXCEPT ![p].user_id = u, ![p].flow_data = data]
              /\ pc' = [pc EXCEPT ![p] = "resolve"]
         ELSE /\ call' = [call EXCEPT ![p].user_id = u, ![p].flow_data = data,
                                      ![p].outcome = "validation_error"]
              /\ pc' = [pc EXCEPT ![p] = "done"]
    /\ UNCHANGED <<svcVars, outbox, engine, now, ticks, hist, twin, twinHist,
                   flow_engines, arcs, acquired, websocket_connections>>

\* a new Arc<RwLock<FlowDetectionEngine>> for user u
NewArc(u) == [owner |-> u, writer |-> None, data |-> NewEngine(now), created |-> now]

\* get_or_create_flow_engine that ignores the key: every user is handed the
\* first analyzer made
get_or_create_flow_engine_AnyKey(p) ==
    /\ pc[p] = "resolve"
    /\ LET u == call[p].user_id
       IN  IF arcs = <<>>
           THEN /\ arcs' = Append(arcs, NewArc(u))
                /\ flow_engines' = [flow_engines EXCEPT ![u] = Some(1)]
                /\ call' = [call EXCEPT ![p].flow_engine_arc = Some(1)]
           ELSE /\ call' = [call EXCEPT ![p].flow_engine_arc = Some(1)]
                /\ flow_engines' = [flow_engines EXCEPT ![u] = Some(1)]
                /\ UNCHANGED arcs
    /\ pc' = [pc EXCEPT ![p] = "lock"]
    /\ UNCHANGED <<svcVars, outbox, engine, now, ticks, hist, twin, twinHist,
                   acquired, websocket_connections>>

\* get_or_create_flow_engine with the map's lock kept until the caller returns:
\* no lookup while another call is past its own lookup
get_or_create_flow_engine_HoldMap(p) ==
    /\ pc[p] = "resolve"
    /\ \A q \in Procs : pc[q] \in {"idle", "resolve", "done"}
    /\ LET u == call[p].user_id
       IN  IF flow_engines[u] = None
           THEN /\ arcs' = Append(arcs, NewArc(u))
                /\ flow_engines' = [flow_engines EXCEPT ![u] = Some(Len(arcs) + 1)]
                /\ call' = [call EXCEPT ![p].flow_engine_arc = Some(Len(arcs) + 1)]
           ELSE /\ call' = [call EXCEPT ![p].flow_engine_arc = flow_engines[u]]
                /\ UNCHANGED <<arcs, flow_engines>>
    /\ pc' = [pc EXCEPT ![p] = "lock"]
    /\ UNCHANGED <<svcVars, outbox, engine, now, ticks, hist, twin, twinHist,
                   acquired, websocket_connections>>

\* get_or_create_flow_engine with a fresh engine inserted on every call
get_or_create_flow_engine_Replace(p) ==
    /\ pc[p] = "resolve"
    /\ arcs' = Append(arcs, NewArc(call[p].user_id))
    /\ flow_engines' = [flow_engines EXCEPT ![call[p].user_id] = Some(Len(arcs) + 1)]
    /\ call' = [call EXCEPT ![p].flow_engine_arc = Some(Len(arcs) + 1)]
    /\ pc' = [pc EXCEPT ![p] = "lock"]
    /\ UNCHANGED <<svcVars, outbox, engine, now, ticks, hist, twin, twinHist,
                   acquired, websocket_connections>>

\* entry(user_id).or_insert_with(..).clone(): DashMap holds the shard's write
\* lock from entry() until the returned reference is dropped, so the lookup,
\* the insertion and the clone are one step
get_or_create_flow_engine(p) ==
    /\ pc[p] = "resolve"
    /\ LET u == call[p].user_id
       IN  IF flow_engines[u] = None
           THEN /\ arcs' = Append(arcs, NewArc(u))
                /\ flow_engines' = [flow_engines EXCEPT ![u] = Some(Len(arcs) + 1)]
                /\ call' = [call EXCEPT ![p].flow_engine_arc = Some(Len(arcs) + 1)]
           ELSE /\ call' = [call EXCEPT ![p].flow_engine_arc = flow_engines[u]]
                /\ UNCHANGED <<arcs, flow_engines>>
    /\ pc' = [pc EXCEPT ![p] = "lock"]
    /\ UNCHANGED <<svcVars, outbox, engine, now, ticks, hist, twin, twinHist,
                   acquired, websocket_connections>>

\* acquiring the lock without waiting for the holder
AcquireWrite_NoWait(p) ==
    /\ pc[p] = "lock"
    /\ arcs' = [arcs EXCEPT ![call[p].flow_engine_arc[1]].writer = Some(p)]
    /\ pc' = [pc EXCEPT ![p] = "analyze"]
    /\ acquired' = Append(acquired, p)
    /\ UNCHANGED <<svcVars, outbox, engine, now, ticks, hist, twin, twinHist,
                   flow_engines, call, websocket_connections>>

\* flow_engine_arc.write(): blocks while another call holds the lock
AcquireWrite(p) ==
    /\ pc[p] = "lock"
    /\ arcs[call[p].flow_engine_arc[1]].writer = None
    /\ arcs' = [arcs EXCEPT ![call[p].flow_engine_arc[1]].writer = Some(p)]
    /\ pc' = [pc EXCEPT ![p] = "analyze"]
    /\ acquired' = Append(acquired, p)
    /\ UNCHANGED <<svcVars, outbox, engine, now, ticks, hist, twin, twinHist,
                   flow_engines, call, websocket_connections>>

\* an analysis whose update of the engine is not stored
RunAnalysis_LostUpdate(p) ==
    /\ pc[p] = "analyze"
    /\ \E inference \in Inferences :
         LET h == call[p].flow_engine_arc[1]
             out == analyze_flow_state(arcs[h].data, call[p].flow_data,
                                       call[p].user_preferences, now, inference)
         IN  /\ arcs' = arcs
             /\ call' = [call EXCEPT ![p].flow_result = out.result,
                                      ![p].outcome = "ok",
                                      ![p].start_time = now]
             /\ pc' = [pc EXCEPT ![p] = "publish"]
    /\ UNCHANGED <<svcVars, outbox, engine, now, ticks, hist, twin, twinHist,
                   flow_engines, acquired, websocket_connections>>

\* the write guard scoped to the analysis alone: it is dropped when
\* analyze_flow_state returns, before the result is published
RunAnalysis_DropGuard(p) ==
    /\ pc[p] = "analyze"
    /\ \E inference \in Inferences :
         LET h == call[p].flow_engine_arc[1]
             out == analyze_flow_state(arcs[h].data, call[p].flow_data,
                                       call[p].user_preferences, now, inference)
         IN  IF out.result.ok
             THEN /\ arcs' = [arcs EXCEPT ![h].data = out.engine, ![h].writer = None]
                  /\ call' = [call EXCEPT ![p].flow_result = out.result,
                                           ![p].outcome = "ok",
                                           ![p].start_time = now]
                  /\ pc' = [pc EXCEPT ![p] = "publish"]
             ELSE /\ arcs' = [arcs EXCEPT ![h].data = out.engine, ![h].writer = None]
                  /\ call' = [call EXCEPT ![p].outcome = "ml_error",
                                           ![p].start_time = now]
                  /\ pc' = [pc EXCEPT ![p] = "done"]
    /\ UNCHANGED <<svcVars, outbox, engine, now, ticks, hist, twin, twinHist,
                   flow_engines, acquired, websocket_connections>>

\* flow_engine.analyze_flow_state(..).await? under the write guard; an error
\* leaves the handler and drops the guard
RunAnalysis(p) ==
    /\ pc[p] = "analyze"
    /\ \E inference \in Inferences :
         LET h == call[p].flow_engine_arc[1]
             out == analyze_flow_state(arcs[h].data, call[p].flow_data,
                                       call[p].user_preferences, now, inference)
         IN  IF out.result.ok
             THEN /\ arcs' = [arcs EXCEPT ![h].data = out.engine]
                  /\ call' = [call EXCEPT ![p].flow_result = out.result,
                                           ![p].outcome = "ok",
                                           ![p].start_time = now]
                  /\ pc' = [pc EXCEPT ![p] = "publish"]
             ELSE /\ arcs' = [arcs EXCEPT ![h].data = out.engine, ![h].writer = None]
                  /\ call' = [call EXCEPT ![p].outcome = "ml_error",
                                           ![p].start_time = now]
                  /\ pc' = [pc EXCEPT ![p] = "done"]
    /\ UNCHANGED <<svcVars, outbox, engine, now, ticks, hist, twin, twinHist,
                   flow_engines, acquired, websocket_connections>>

\* a call holds a Ref into websocket_connections (a read guard on the shard
\* of its key); insert and remove need the shard's write lock
ShardWritable == \A q \in Procs : ~call[q].ws_ref

\* update_session_activity, tokio::spawn of the insert (never awaited), then
\* broadcast_to_user.  At "publish" the call does get(&user_id) and send; the
\* Ref returned by get lives to the end of the `if let`, so at "remove" the
\* call asks for the shard's write lock while it holds the Ref.
broadcast_to_user(p) ==
    /\ pc[p] \in {"publish", "remove"}
    /\ LET u == call[p].user_id
       IN  IF pc[p] = "publish"
           THEN IF websocket_connections[u] = None
                THEN /\ call' = [call EXCEPT ![p].db_task = TRUE]
                     /\ pc' = [pc EXCEPT ![p] = "return"]
                     /\ UNCHANGED <<websocket_connections, outbox>>
                ELSE IF websocket_connections[u] = Some("open")
                THEN /\ call' = [call EXCEPT ![p].db_task = TRUE, ![p].pushed = TRUE]
                     /\ outbox' = [outbox EXCEPT ![u] = Append(@, p)]
                     /\ pc' = [pc EXCEPT ![p] = "return"]
                     /\ UNCHANGED websocket_connections
                ELSE /\ call' = [call EXCEPT ![p].db_task = TRUE, ![p].ws_ref = TRUE]
                     /\ pc' = [pc EXCEPT ![p] = "remove"]
                     /\ UNCHANGED <<websocket_connections, outbox>>
           ELSE /\ ShardWritable
                /\ websocket_connections' = [websocket_connections EXCEPT ![u] = None]
                /\ call' = [call EXCEPT ![p].ws_ref = FALSE]
                /\ pc' = [pc EXCEPT ![p] = "return"]
                /\ UNCHANGED outbox
    /\ UNCHANGED <<svcVars, engine, now, ticks, hist, twin, twinHist, flow_engines,
                   arcs, acquired>>

\* Ok(Json(flow_result)): the return drops the write guard
Return(p) ==
    /\ pc[p] = "return"
    /\ arcs' = [arcs EXCEPT ![call[p].flow_engine_arc[1]].writer = None]
    /\ pc' = [pc EXCEPT ![p] = "done"]
    /\ UNCHANGED <<svcVars, outbox, engine, now, ticks, hist, twin, twinHist,
                   flow_engines, call, acquired, websocket_connections>>

detect_flow_state(p) ==
    \/ Enter(p)
    \/ get_or_create_flow_engine(p)
    \/ AcquireWrite(p)
    \/ RunAnalysis(p)
    \/ broadcast_to_user(p)
    \/ Return(p)

NextReg == \E p \in Procs : detect_flow_state(p)

SpecReg == Init /\ [][NextReg]_vars

----------------------------------------------------------------------------
(* SpecPush: the handler with the push channels of handlers/websocket.rs    *)
(* and, for the model path, analyzers whose ml_engine has been initialised  *)

PushSamples == {DFive}

\* websocket_connection registers the sender half of a new channel
add_websocket_connection(u) ==
    /\ ShardWritable
    /\ websocket_connections[u] = None
    /\ websocket_connections' = [websocket_connections EXCEPT ![u] = Some("open")]
    /\ UNCHANGED <<svcVars, outbox, engine, now, ticks, hist, twin, twinHist,
                   flow_engines, arcs, pc, call, acquired>>

\* the receiver half is dropped while the sender is still registered: the
\* sender task ends on a failed socket write, or is aborted before the
\* connection is removed
ReceiverDropped(u) ==
    /\ websocket_connections[u] = Some("open")
    /\ websocket_connections' = [websocket_connections EXCEPT ![u] = Some("closed")]
    /\ UNCHANGED <<svcVars, outbox, engine, now, ticks, hist, twin, twinHist,
                   flow_engines, arcs, pc, call, acquired>>

\* the cleanup of websocket_connection
remove_websocket_connection(u) ==
    /\ ShardWritable
    /\ websocket_connections[u] = Some("closed")
    /\ websocket_connections' = [websocket_connections EXCEPT ![u] = None]
    /\ UNCHANGED <<svcVars, outbox, engine, now, ticks, hist, twin, twinHist,
                   flow_engines, arcs, pc, call, acquired>>

\* initialize_model on the ml_engine of analyzer h.  The repository has no
\* call of it on an analyzer's engine; this is the premise "a model is attached".
AttachModel(h) ==
    /\ arcs[h].writer = None
    /\ arcs[h].data.ml_engine.model = None
    /\ arcs' = [arcs EXCEPT ![h].data.ml_engine = initialize_model(@)]
    /\ UNCHANGED <<svcVars, outbox, engine, now, ticks, hist, twin, twinHist,
                   flow_engines, pc, call, acquired, websocket_connections>>

EnterPush(p) ==
    /\ p <= MaxPushCalls
    /\ Enter(p)
    /\ call'[p].flow_data \in PushSamples

\* the handler after the request has arrived
Serve(p) ==
    \/ get_or_create_flow_engine(p)
    \/ AcquireWrite(p)
    \/ RunAnalysis(p)
    \/ broadcast_to_user(p)
    \/ Return(p)

NextPush ==
    \/ \E p \in Procs : EnterPush(p) \/ Serve(p)
    \/ \E u \in Users : \/ add_websocket_connection(u)
                         \/ ReceiverDropped(u)
                         \/ remove_websocket_connection(u)
    \/ \E h \in 1..Len(arcs) : AttachModel(h)

SpecPush == Init /\ [][NextPush]_vars

\* a call whose analysis has returned keeps running while it can: the task
\* is polled again whenever it is not waiting for a lock; the channels and
\* the model are the environment's
SpecPushFair ==
    SpecPush /\ \A p \in Procs : WF_vars(broadcast_to_user(p) \/ Return(p))

----------------------------------------------------------------------------
(* SpecTimed: two engines, each call with its measured analysis time *)

TimedSamples == {DFive, DDeep}

\* start_time.elapsed() at the end of a call, in microseconds
ElapsedTimes == {400, 3000}

\* analyze_flow_state on one of the two engines, taking elapsed_us
AnalyzeTimedOn(which, data, elapsed_us) ==
    LET e == IF which = "engine" THEN engine ELSE twin
    IN  \E done \in {analyze_flow_state(e, data, None, now,
                                         [ok |-> FALSE, prediction |-> 0])} :
          LET out   == finish_analysis(done, elapsed_us)
              entry == [op |-> "analyze", data |-> data, prefs |-> None,
                        at |-> now, pre |-> e, post |-> out.engine,
                        result |-> out.result,
                        analysis_time_us |-> out.analysis_time_us,
                        warned |-> out.warned]
          IN  IF which = "engine"
              THEN /\ Len(hist) < MaxTimedCalls
                   /\ engine' = out.engine
                   /\ hist' = Append(hist, entry)
                   /\ UNCHANGED <<twin, twinHist, now, ticks, regVars, svcVars>>
              ELSE /\ Len(twinHist) < MaxTimedCalls
                   /\ twin' = out.engine
                   /\ twinHist' = Append(twinHist, entry)
                   /\ UNCHANGED <<engine, hist, now, ticks, regVars, svcVars>>

AnalyzeTimed ==
    \E which \in Engines :
      \E data \in TimedSamples :
        \E elapsed_us \in ElapsedTimes : AnalyzeTimedOn(which, data, elapsed_us)

NextTimed ==
    \/ AnalyzeTimed
    \/ Tick

SpecTimed == Init /\ [][NextTimed]_vars

----------------------------------------------------------------------------
(* SpecLong: one engine over a run of calls longer than the confidence     *)
(* history: any of the samples in the first FreeCalls calls, the samples   *)
(* in rotation afterwards                                                  *)

LongSchedule == <<DEmpty, DFive, DTen>>

LongChoices(k) ==
    IF k <= FreeCalls THEN {LongSchedule[i] : i \in 1..Len(LongSchedule)}
    ELSE {LongSchedule[(k % Len(LongSchedule)) + 1]}

AnalyzeLong ==
    /\ Len(hist) < MaxLongCalls
    /\ \E data \in LongChoices(Len(hist) + 1) :
         \E inference \in Inferences : Analyze(data, None, inference)

NextLong == AnalyzeLong

SpecLong == Init /\ [][NextLong]_vars

----------------------------------------------------------------------------
(* SpecScore: one engine, two calls over samples that reach every band of  *)
(* the rhythm, consistency and velocity scores, with pauses of several     *)
(* lengths before a call                                                   *)

\* n intervals of x ms
Steady(n, x) == [i \in 1..n |-> x]

ScoreSamples ==
    { DEmpty, DFive, DPeak, DLow, DTen,
      FlowStateData(<<100, 100>>, 2, 0, 1000, 1, Some(400)),
      FlowStateData(<<0, 0, 0>>, 0, 0, 0, 1, None),
      FlowStateData(Steady(3, 80), 2, 0, 5000, 0, Some(100)),
      FlowStateData(Steady(3, 200), 3, 0, 5000, 0, None),
      FlowStateData(Steady(3, 250), 0, 0, 5000, 0, Some(600)),
      FlowStateData(<<60, 140, 60, 140>>, 2, 0, 5000, 0, Some(401)),
      FlowStateData(Steady(3, 400), 2, 0, 5000, 0, None),
      FlowStateData(Steady(3, 600), 2, 0, 5000, 0, None),
      FlowStateData(Steady(3, 601), 2, 0, 5000, 0, Some(199)),
      FlowStateData(Steady(3, 100), 2, 0, 5000, 0, None),
      FlowStateData(Steady(20, 120), 2, 0, 30000, 20, Some(601)),
      FlowStateData(<<500>> \o Steady(20, 120), 2, 0, 30000, 6, Some(99)) }

\* the pauses a client may make before a call, in ms
Waits == {10000, 12000, 60000}

Wait ==
    /\ ticks < MaxWaits
    /\ \E d \in Waits : now' = now + d
    /\ ticks' = ticks + 1
    /\ UNCHANGED <<engine, hist, twin, twinHist, regVars, svcVars>>

AnalyzeScore ==
    /\ Len(hist) < MaxScoreCalls
    /\ \E data \in ScoreSamples :
         \E inference \in Inferences : Analyze(data, None, inference)

NextScore ==
    \/ AnalyzeScore
    \/ Wait

SpecScore == Init /\ [][NextScore]_vars

----------------------------------------------------------------------------
(* SpecErrors: two engines given samples that differ in error_events only *)

ErrorCounts == {0, 5, 1000}

ErrSamples == {[DFive EXCEPT !.error_events = n] : n \in ErrorCounts}

AnalyzeErrors ==
    \E which \in Engines :
      \E data \in ErrSamples :
        \E inference \in Inferences :
          AnalyzeOn(which, data, None, inference)

NextErrors ==
    \/ AnalyzeErrors
    \/ Tick

SpecErrors == Init /\ [][NextErrors]_vars

----------------------------------------------------------------------------
(* SpecRule: rule_based_prediction applied to feature arrays *)

\* the array whose weighted sum is v: every score v, error feature 1 - v
Uniform(v) == <<v, v, v, SCALE - v, v>>

Levels == {0, 1500, 2999, 3000, 3001, 5000, 7999, 8000, 8001, 9000, 9999, SCALE}

\* the arrays analyze_flow_state can pass: scores within [0, 1], the fourth
\* entry 1 - error_penalty, which is below 0 for more than e^10 errors
FeatureInputs ==
    {Uniform(v) : v \in Levels}
    \cup {<<SCALE, SCALE, SCALE, -12000, 9000>>, <<9500, 8187, 5000, SCALE, 7000>>}

PredictRule ==
    /\ Len(ruleLog) < MaxRuleCalls
    /\ \E features \in FeatureInputs :
         ruleLog' = Append(ruleLog, [features |-> features,
                                     value |-> rule_based_prediction(features)])
    /\ UNCHANGED <<engine, now, ticks, hist, twin, twinHist, regVars, sysVars,
                   requests, rateLog, enc, vault, decLog>>

NextRule == PredictRule

SpecRule == Init /\ [][NextRule]_vars

----------------------------------------------------------------------------
(* SpecRate: one RateLimiter, called for two identifiers as time passes *)

\* the clock advances between calls of a service
Advance ==
    /\ ticks < MaxServiceTicks
    /\ now' = now + TickMs
    /\ ticks' = ticks + 1
    /\ UNCHANGED <<engine, hist, twin, twinHist, regVars, svcVars>>

CheckRateLimit ==
    /\ Len(rateLog) < MaxRateCalls
    /\ \E identifier \in Identifiers :
         LET out == check_rate_limit(requests, identifier, now)
         IN  /\ requests' = out.requests
             /\ rateLog' = Append(rateLog, [identifier |-> identifier, at |-> now,
                                            allowed |-> out.allowed])
    /\ UNCHANGED <<engine, now, ticks, hist, twin, twinHist, regVars, sysVars,
                   enc, vault, decLog, ruleLog>>

Cleanup ==
    /\ requests' = cleanup_old_entries(requests, now)
    /\ UNCHANGED <<engine, now, ticks, hist, twin, twinHist, regVars, sysVars,
                   rateLog, enc, vault, decLog, ruleLog>>

NextRate ==
    \/ CheckRateLimit
    \/ Cleanup
    \/ Advance

SpecRate == Init /\ [][NextRate]_vars

----------------------------------------------------------------------------
(* SpecEnc: one EncryptionService: values are encrypted, keys rotated with *)
(* freshly generated master keys, stored values decrypted                  *)

Plaintexts == {"a", "b"}

Encrypt ==
    /\ Len(vault) < MaxVault
    /\ \E plain \in Plaintexts :
         vault' = Append(vault, [plain |-> plain,
                                 encrypted |-> encrypt_sensitive_data(enc, plain),
                                 rotations |-> Cardinality(DOMAIN enc.rotation_keys)])
    /\ UNCHANGED <<engine, now, ticks, hist, twin, twinHist, regVars, sysVars,
                   requests, rateLog, enc, decLog, ruleLog>>

\* rotate_key with the next key of generate_master_key
RotateKey ==
    /\ enc.cipher <= MaxRotations
    /\ enc' = rotate_key(enc, enc.cipher + 1, now)
    /\ UNCHANGED <<engine, now, ticks, hist, twin, twinHist, regVars, sysVars,
                   requests, rateLog, vault, decLog, ruleLog>>

Decrypt ==
    /\ Len(decLog) < MaxDecrypts
    /\ \E i \in 1..Len(vault) :
         decLog' = Append(decLog, [plain |-> vault[i].plain,
                                   made_with |-> vault[i].encrypted.data.key,
                                   current |-> enc.cipher,
                                   result |-> decrypt_sensitive_data(enc, vault[i].encrypted)])
    /\ UNCHANGED <<engine, now, ticks, hist, twin, twinHist, regVars, sysVars,
                   requests, rateLog, enc, vault, ruleLog>>

NextEnc ==
    \/ Encrypt
    \/ RotateKey
    \/ Decrypt
    \/ Advance

SpecEnc == Init /\ [][NextEnc]_vars

----------------------------------------------------------------------------
(* SpecConn: handlers/websocket.rs, the websocket_connection tasks of the   *)
(* users' clients with their channels, ping ticks and stale checks          *)

\* everything a websocket_connection task leaves alone
connFrame ==
    <<engine, hist, twin, twinHist, flow_engines, arcs, pc, call, acquired, outbox,
      requests, rateLog, enc, vault, decLog, ruleLog, active_sessions, cleaner, sumLog>>

\* the connections after broadcast_to_user(u, msg).  The socket writes of
\* the sender tasks succeed here, so a registered sender has its receiver
\* (the failed send is SpecPush's): the sender task of the registered channel
\* writes the message to its socket, and a client that reads a ping owes a
\* pong
Sent(cs, u, msg) ==
    IF websocket_connections[u] = None \/ msg # "ping" THEN cs
    ELSE [cs EXCEPT ![websocket_connections[u][1]].owed = @ + 1]

\* websocket_connection up to its loop: the channel is made, its sender is
\* inserted under the user id, the sender task is spawned, the ping interval
\* (first tick at once) and last_pong are set
Upgrade(c) ==
    /\ conns[c].at = "idle"
    /\ \E u \in Users :
         /\ websocket_connections' = [websocket_connections EXCEPT ![u] = Some(c)]
         /\ conns' = [conns EXCEPT ![c] =
                         [@ EXCEPT !.at = "loop", !.user_id = u, !.receiver = TRUE,
                                   !.last_pong = now, !.next_tick = now,
                                   !.reg = 1 + Cardinality({d \in Conns :
                                                               conns[d].at # "idle"})]]
    /\ UNCHANGED <<now, ticks, connFrame>>

\* the ping_interval arm of the loop: the ping message is broadcast to the
\* user, then the stale check breaks out of the loop or the loop goes on
PingTick(c) ==
    /\ conns[c].at = "loop"
    /\ now >= conns[c].next_tick
    /\ LET u == conns[c].user_id
           cs == Sent(conns, u, "ping")
       IN  IF now - conns[c].last_pong > StaleAfterMs
           THEN conns' = [cs EXCEPT ![c].at = "cleanup", ![c].why = "stale"]
           ELSE conns' = [cs EXCEPT ![c].next_tick = @ + PingPeriodMs]
    /\ UNCHANGED <<now, ticks, websocket_connections, connFrame>>

\* the receiver arm with a text message: handle_websocket_message answers a
\* "ping" with a "pong" broadcast to the user and only logs a "pong"
handle_websocket_message(c, type) ==
    /\ conns[c].at = "loop"
    /\ LET u == conns[c].user_id
       IN  IF type = "ping"
           THEN conns' = Sent(conns, u, "pong")
           ELSE /\ conns[c].owed > 0
                /\ conns' = [conns EXCEPT ![c].owed = @ - 1]
    /\ UNCHANGED <<now, ticks, websocket_connections, connFrame>>

\* the receiver arm with a Pong frame of the protocol
ReceivePongFrame(c) ==
    /\ conns[c].at = "loop"
    /\ conns[c].owed > 0
    /\ conns' = [conns EXCEPT ![c].owed = @ - 1, ![c].last_pong = now]
    /\ UNCHANGED <<now, ticks, websocket_connections, connFrame>>

\* the receiver arm with a Close frame, an error or the end of the stream
ReceiveClose(c) ==
    /\ conns[c].at = "loop"
    /\ conns' = [conns EXCEPT ![c].at = "cleanup", ![c].why = "client"]
    /\ UNCHANGED <<now, ticks, websocket_connections, connFrame>>

\* after the loop: sender_task.abort() and remove_websocket_connection(user_id)
Disconnect(c) ==
    /\ conns[c].at = "cleanup"
    /\ websocket_connections' =
           [websocket_connections EXCEPT ![conns[c].user_id] = None]
    /\ conns' = [conns EXCEPT ![c].at = "closed", ![c].receiver = FALSE]
    /\ UNCHANGED <<now, ticks, connFrame>>

websocket_connection(c) ==
    \/ Upgrade(c)
    \/ PingTick(c)
    \/ \E type \in {"ping", "pong"} : handle_websocket_message(c, type)
    \/ ReceivePongFrame(c)
    \/ ReceiveClose(c)
    \/ Disconnect(c)

\* one ping period passes once every tick that is due has fired and every
\* task that has left its loop has run its cleanup
Elapse ==
    /\ ticks < MaxConnTicks
    /\ \A c \in Conns : conns[c].at = "loop" => conns[c].next_tick > now
    /\ \A c \in Conns : conns[c].at # "cleanup"
    /\ now' = now + PingPeriodMs
    /\ ticks' = ticks + 1
    /\ UNCHANGED <<conns, websocket_connections, connFrame>>

NextConn ==
    \/ \E c \in Conns : websocket_connection(c)
    \/ Elapse

SpecConn == Init /\ [][NextConn]_vars

----------------------------------------------------------------------------
(* SpecIdle: state.rs, the active sessions with the periodic                *)
(* cleanup_idle_sessions of monitor_websocket_performance running beside    *)
(* the handlers that add, refresh and remove sessions                       *)

\* everything the session registry's operations leave alone
idleFrame ==
    <<engine, hist, twin, twinHist, regVars, requests, rateLog, enc, vault, decLog,
      ruleLog, conns, sumLog>>

\* time passes between the operations
Idle ==
    /\ ticks < MaxIdleTicks
    /\ now' = now + IdleTickMs
    /\ ticks' = ticks + 1
    /\ UNCHANGED <<active_sessions, cleaner, idleFrame>>

\* add_active_session with a SessionInfo made now
add_active_session(session_id) ==
    /\ active_sessions[session_id] = None
    /\ active_sessions' = [active_sessions EXCEPT
                              ![session_id] = Some([last_activity |-> now])]
    /\ UNCHANGED <<now, ticks, cleaner, idleFrame>>

\* update_session_activity: get_mut and, if the session is there, the stamp
update_session_activity(session_id) ==
    /\ active_sessions[session_id] # None
    /\ active_sessions' = [active_sessions EXCEPT
                              ![session_id] = Some([@[1] EXCEPT !.last_activity = now])]
    /\ UNCHANGED <<now, ticks, cleaner, idleFrame>>

remove_active_session(session_id) ==
    /\ active_sessions[session_id] # None
    /\ active_sessions' = [active_sessions EXCEPT ![session_id] = None]
    /\ UNCHANGED <<now, ticks, cleaner, idleFrame>>

\* the orders in which an iteration over the map can meet the ids of `ids`
Orders(ids) ==
    {order \in [1..Cardinality(ids) -> ids] :
        \A i \in DOMAIN order : \A j \in DOMAIN order : order[i] = order[j] => i = j}

\* cleanup_idle_sessions, first loop: the cutoff is taken and the ids of the
\* sessions older than it are collected
Scan ==
    /\ cleaner.at = "idle"
    /\ cleaner.runs < MaxCleanups
    /\ LET cutoff_time == now - IdleTimeoutMs
           idle == {session_id \in SessionIds :
                       /\ active_sessions[session_id] # None
                       /\ active_sessions[session_id][1].last_activity < cutoff_time}
       IN  \E order \in Orders(idle) :
               cleaner' = [cleaner EXCEPT !.at = "remove", !.runs = @ + 1,
                                          !.cutoff_time = cutoff_time,
                                          !.to_remove = order]
    /\ UNCHANGED <<now, ticks, active_sessions, idleFrame>>

\* cleanup_idle_sessions, second loop: the next collected id is removed; the
\* call returns when none is left
Remove ==
    /\ cleaner.at = "remove"
    /\ IF cleaner.to_remove = <<>>
       THEN /\ cleaner' = [cleaner EXCEPT !.at = "idle"]
            /\ UNCHANGED active_sessions
       ELSE LET session_id == Head(cleaner.to_remove)
            IN  /\ active_sessions' = [active_sessions EXCEPT ![session_id] = None]
                /\ cleaner' = [cleaner EXCEPT
                                  !.to_remove = Tail(@),
                                  !.removed =
                                      IF active_sessions[session_id] = None THEN @
                                      ELSE Append(@, [session_id |-> session_id,
                                                      cutoff_time |-> cleaner.cutoff_time,
                                                      last_activity |->
                                                          active_sessions[session_id][1]
                                                              .last_activity])]
    /\ UNCHANGED <<now, ticks, idleFrame>>

cleanup_idle_sessions ==
    \/ Scan
    \/ Remove

NextIdle ==
    \/ \E session_id \in SessionIds : \/ add_active_session(session_id)
                                       \/ update_session_activity(session_id)
                                       \/ remove_active_session(session_id)
    \/ cleanup_idle_sessions
    \/ Idle

SpecIdle == Init /\ [][NextIdle]_vars

----------------------------------------------------------------------------
(* SpecSum: intervals.iter().sum::<u64>() of analyze_keystroke_rhythm,      *)
(* calculate_velocity_score and calculate_coefficient_of_variation, at the  *)
(* width of the type.  A u64 is four 16-bit limbs, least significant first. *)

Limb == 65536

U64Zero == <<0, 0, 0, 0>>
U64Max == <<Limb - 1, Limb - 1, Limb - 1, Limb - 1>>
U64Half == <<0, 0, 0, Limb \div 2>>

\* the u64 of a number below 2^31
U64(n) == <<n % Limb, (n \div Limb) % Limb, 0, 0>>

\* a + b in 64 bits with the carry out of the top limb
AddU64(a, b) ==
    LET s1 == a[1] + b[1]
        s2 == a[2] + b[2] + s1 \div Limb
        s3 == a[3] + b[3] + s2 \div Limb
        s4 == a[4] + b[4] + s3 \div Limb
    IN  [value |-> <<s1 % Limb, s2 % Limb, s3 % Limb, s4 % Limb>>,
         carry |-> s4 \div Limb # 0]

\* the fold of Iterator::sum over the first n intervals: the sum modulo 2^64
\* and whether an addition overflowed
RECURSIVE SumU64(_, _)
SumU64(intervals, n) ==
    IF n = 0 THEN [value |-> U64Zero, overflow |-> FALSE]
    ELSE LET before == SumU64(intervals, n - 1)
             added == AddU64(before.value, intervals[n])
         IN  [value |-> added.value, overflow |-> before.overflow \/ added.carry]

\* the first step of analyze_flow_state that sums the sample's intervals:
\* the rhythm score from 3 intervals on, else the velocity score when no
\* typing_velocity is given
SummingStep(intervals) == IF Len(intervals) >= 3 THEN "rhythm" ELSE "velocity"

\* interval values of a request: small ones and the large ones a u64 admits
BigValues == {U64(1), U64(100), U64Half, U64Max}

\* the keystroke_intervals that pass the length validator (1 to 1000) up to
\* MaxSumLen intervals
BigSamples ==
    UNION {[1..n -> BigValues] : n \in 1..MaxSumLen}

\* an overflowing addition panics in a build with overflow checks and wraps
\* in a build without
Builds == {"overflow-checks", "no-overflow-checks"}

sumFrame ==
    <<engine, now, ticks, hist, twin, twinHist, regVars, requests, rateLog, enc, vault,
      decLog, ruleLog, conns, active_sessions, cleaner>>

SumIntervals ==
    /\ Len(sumLog) < MaxSums
    /\ \E intervals \in BigSamples : \E build \in Builds :
         LET total == SumU64(intervals, Len(intervals))
         IN  sumLog' = Append(sumLog,
                 [intervals |-> intervals,
                  step |-> SummingStep(intervals),
                  overflow |-> total.overflow,
                  outcome |-> IF ~total.overflow THEN "summed"
                              ELSE IF build = "overflow-checks" THEN "panic"
                              ELSE "wrapped",
                  sum |-> total.value])
    /\ UNCHANGED sumFrame

NextSum == SumIntervals

SpecSum == Init /\ [][NextSum]_vars

----------------------------------------------------------------------------
(* Properties.  hist[i] is the i-th call on the engine: its input, the clock *)
(* at the call, the engine before and after, and the value returned.         *)

Calls == {i \in 1..Len(hist) : hist[i].op = "analyze"}

\* the threshold a call is judged against
ThresholdOf(h) == IF h.prefs = None THEN 7000 ELSE h.prefs[1].sensitivity_level

Above(h) == h.result.flow_intensity > ThresholdOf(h)

\* the state left by FlowDetectionEngine::new()
Fresh(e) ==
    /\ e.keystroke_buffer = <<>>
    /\ e.confidence_history = <<>>
    /\ e.flow_start_time = None
    /\ e.flow_session_count = 0
    /\ e.total_flow_time = 0

\* C1: every result returned by analyze_flow_state has its flow_intensity
\* and its confidence within [0, 1]
FlowIntensityBounds ==
    \A i \in Calls :
        hist[i].result.ok =>
            /\ 0 <= hist[i].result.flow_intensity
            /\ hist[i].result.flow_intensity <= SCALE
            /\ 0 <= hist[i].result.confidence
            /\ hist[i].result.confidence <= SCALE

\* a session was started and ended, the ring buffer has wrapped, and the
\* last score sits at the upper clamp
FlowIntensityBoundsWitness ==
    /\ Len(hist) = 2
    /\ Len(hist[1].data.keystroke_intervals) > 100
    /\ Len(engine.keystroke_buffer) = 100
    /\ hist[1].result.is_in_flow
    /\ engine.flow_session_count = 1
    /\ hist[2].result.flow_intensity = SCALE
    /\ hist[2].result.confidence = SCALE

\* the degenerate sample: no intervals, zero focus duration, zero counts
Degenerate(data) ==
    /\ data.keystroke_intervals = <<>>
    /\ data.window_focus_duration = 0
    /\ data.context_switches = 0
    /\ data.error_events = 0
    /\ data.file_modifications = 0
    /\ data.typing_velocity = None

\* C2: with no model attached no call returns an error, and the degenerate
\* sample on a fresh analyzer scores rhythm 0, consistency 0.5, velocity 0.5
NoErrorWithoutModel ==
    \A i \in Calls :
        hist[i].pre.ml_engine.model = None =>
            /\ hist[i].result.ok
            /\ (Degenerate(hist[i].data) /\ Fresh(hist[i].pre)) =>
                   /\ hist[i].result.metrics.rhythm_score = 0
                   /\ hist[i].result.metrics.consistency_score = 5000
                   /\ hist[i].result.metrics.velocity_score = 5000

\* the degenerate sample was analyzed on a fresh engine, and again on an
\* engine that already holds data
NoErrorWithoutModelWitness ==
    /\ Len(hist) = 2
    /\ Degenerate(hist[1].data) /\ Fresh(hist[1].pre) /\ hist[1].result.ok
    /\ Degenerate(hist[2].data) /\ hist[2].result.ok

\* the non-linear adjustment and clamp applied to a weighted sum
AdjustAndClamp(base) ==
    Clamp01(IF base > 8000 THEN base + (base - 8000) \div 2
            ELSE IF base < 3000 THEN (base * 8) \div 10
            ELSE base)

\* C3: the returned intensity is the adjusted, clamped value of
\* 0.35*rhythm + 0.25*focus + 0.20*consistency + 0.10*(1 - errorPenalty)
\* + 0.10*velocity over the metrics reported in the same result
IntensityIsWeightedSumOfMetrics ==
    \A i \in Calls :
        hist[i].result.ok =>
            LET m == hist[i].result.metrics
            IN  hist[i].result.flow_intensity =
                    AdjustAndClamp((35 * m.rhythm_score + 25 * m.focus_score
                                    + 20 * m.consistency_score
                                    + 10 * (SCALE - m.error_penalty)
                                    + 10 * m.velocity_score) \div 100)

\* C4: is_in_flow is true exactly when the intensity is strictly greater than
\* the caller's sensitivity_level, or than 0.7 when no preferences are given
InFlowIffAboveThreshold ==
    \A i \in Calls :
        hist[i].result.ok =>
            (hist[i].result.is_in_flow <=>
                 hist[i].result.flow_intensity >
                     (IF hist[i].prefs = None THEN 7000
                      ELSE hist[i].prefs[1].sensitivity_level))

\* one call with the intensity equal to the supplied level (not in flow) and
\* one call without preferences that is in flow
InFlowIffAboveThresholdWitness ==
    /\ Len(hist) = 2
    /\ hist[1].prefs # None
    /\ hist[1].prefs[1].sensitivity_level = hist[1].result.flow_intensity
    /\ ~hist[1].result.is_in_flow
    /\ hist[2].prefs = None
    /\ hist[2].result.is_in_flow

\* calls a..b are analyze calls: a starts from no active session, a..b-1 are
\* above the threshold and b is at or below it
FlowRun(a, b) ==
    /\ a < b
    /\ \A m \in a..b : hist[m].op = "analyze" /\ hist[m].result.ok
    /\ hist[a].pre.flow_start_time = None
    /\ \A m \in a..(b - 1) : Above(hist[m])
    /\ ~Above(hist[b])

\* C5: a run of above-threshold calls followed by a call at or below the
\* threshold adds exactly one to the session counter and exactly the time
\* between the first call of the run and the closing call to the total
SessionAccounting ==
    \A a \in 1..Len(hist) : \A b \in 1..Len(hist) :
        FlowRun(a, b) =>
            /\ get_session_stats(hist[b].post)[1] = get_session_stats(hist[a].pre)[1] + 1
            /\ get_session_stats(hist[b].post)[2] =
                   get_session_stats(hist[a].pre)[2] + (hist[b].at - hist[a].at)

\* a run of two above-threshold calls, with time passing between them, that
\* begins after a call below the threshold
SessionAccountingWitness ==
    /\ Len(hist) = 4
    /\ FlowRun(2, 4)
    /\ ~Above(hist[1])
    /\ hist[2].at < hist[3].at

\* every interval fed to the engine so far, in arrival order
RECURSIVE FedUpTo(_)
FedUpTo(i) ==
    IF i = 0 THEN <<>>
    ELSE FedUpTo(i - 1) \o (IF hist[i].op = "analyze" THEN hist[i].data.keystroke_intervals
                            ELSE <<>>)

Fed == FedUpTo(Len(hist))

\* C6: the interval ring buffer holds at most 100 values, the most recent
\* min(100, total) of all intervals fed, in arrival order
RingBufferIsLast100 ==
    /\ Len(engine.keystroke_buffer) <= 100
    /\ engine.keystroke_buffer =
           (IF Len(Fed) <= 100 THEN Fed ELSE SubSeq(Fed, Len(Fed) - 99, Len(Fed)))

\* a single sample of more than 100 intervals followed by another sample
RingBufferIsLast100Witness ==
    /\ Len(hist) = 2
    /\ Len(hist[1].data.keystroke_intervals) > 100
    /\ hist[2].data.keystroke_intervals # <<>>
    /\ Len(Fed) > 100

\* C8: two successive calls with the same sample of 3 to 100 intervals on a
\* fresh engine return intensities that differ by less than 0.01
RepeatedCallSameIntensity ==
    (/\ Len(hist) >= 2
     /\ hist[1].op = "analyze" /\ hist[2].op = "analyze"
     /\ Fresh(hist[1].pre)
     /\ hist[1].data = hist[2].data
     /\ hist[1].prefs = None /\ hist[2].prefs = None
     /\ hist[1].at = hist[2].at
     /\ Len(hist[1].data.keystroke_intervals) >= 3
     /\ Len(hist[1].data.keystroke_intervals) <= 100)
    => Abs(hist[1].result.flow_intensity - hist[2].result.flow_intensity) < 100

\* what the claim takes as the AnalyzerState of a call: interval buffer,
\* session start, confidence history and time since the last analysis
SameAnalyzerState(h, g) ==
    /\ h.pre.keystroke_buffer = g.pre.keystroke_buffer
    /\ h.pre.flow_start_time = g.pre.flow_start_time
    /\ h.pre.confidence_history = g.pre.confidence_history
    /\ h.at - h.pre.last_analysis = g.at - g.pre.last_analysis

\* C7: two analyzers in the same AnalyzerState that receive the same sample
\* and preferences return the same flow_intensity (within 0.01) and the same
\* is_in_flow
SameStateSameScore ==
    \A i \in 1..Len(hist) : \A j \in 1..Len(twinHist) :
        (/\ SameAnalyzerState(hist[i], twinHist[j])
         /\ hist[i].data = twinHist[j].data
         /\ hist[i].prefs = twinHist[j].prefs)
        => /\ Abs(hist[i].result.flow_intensity - twinHist[j].result.flow_intensity) < 100
           /\ hist[i].result.is_in_flow = twinHist[j].result.is_in_flow

\* the two analyzers agree on the AnalyzerState of their third call but one
\* of them has completed a session of more than 10 s and the other none
SameStateSameScoreWitness ==
    /\ Len(hist) = 3 /\ Len(twinHist) = 3
    /\ SameAnalyzerState(hist[3], twinHist[3])
    /\ hist[3].data = twinHist[3].data
    /\ hist[3].prefs = twinHist[3].prefs
    /\ hist[3].pre.flow_session_count = 1
    /\ hist[3].pre.total_flow_time > 10000
    /\ twinHist[3].pre.flow_session_count = 0
    /\ hist[3].pre.keystroke_buffer # <<>>

\* the calls that have obtained an analyzer from the registry
Resolved == {p \in Procs : call[p].flow_engine_arc # None}

\* C9: all calls for one user obtain the same analyzer instance; at most one
\* analyzer is ever created per user, on first reference, and the registry
\* keeps pointing at it
OneAnalyzerPerUser ==
    /\ \A p \in Resolved : flow_engines[call[p].user_id] = call[p].flow_engine_arc
    /\ \A p \in Resolved : \A q \in Resolved :
           call[p].user_id = call[q].user_id
               => call[p].flow_engine_arc = call[q].flow_engine_arc
    /\ \A u \in Users :
           /\ Cardinality({h \in 1..Len(arcs) : arcs[h].owner = u}) <= 1
           /\ (flow_engines[u] # None <=> \E p \in Resolved : call[p].user_id = u)
           /\ flow_engines[u] # None => arcs[flow_engines[u][1]].owner = u

\* three calls of one user have all obtained the analyzer, and the last of
\* them finds the intervals of the two before it
OneAnalyzerPerUserWitness ==
    /\ \A p \in Procs : pc[p] = "done" /\ call[p].outcome = "ok"
    /\ \A p \in Procs : call[p].user_id = call[1].user_id
    /\ Len(arcs) = 1
    /\ Len(arcs[1].data.keystroke_buffer) = 15

\* the calls that hold the write guard of their analyzer
Holding == {p \in Procs : pc[p] \in {"analyze", "publish", "remove", "return"}}

\* C10: at most one detect_flow_state call at a time is inside
\* analyze_flow_state (or holds the write lock) on a given user's analyzer
OneWriterPerUser ==
    \A p \in Holding : \A q \in Holding :
        call[p].user_id = call[q].user_id => p = q

\* one call of a user holds the lock in analyze_flow_state while another call
\* of the same user waits for it
OneWriterPerUserWitness ==
    \E p \in Procs : \E q \in Procs :
        /\ p # q
        /\ call[p].user_id = call[q].user_id
        /\ pc[p] = "analyze"
        /\ pc[q] = "lock"
        /\ arcs[call[q].flow_engine_arc[1]].writer = Some(p)

\* the calls that obtained the write guard of analyzer h, in that order
LockOrder(h) == SelectSeq(acquired, LAMBDA p : call[p].flow_engine_arc = Some(h))

\* the calls whose analysis has run
Analyzed == {p \in Procs : call[p].outcome \in {"ok", "ml_error"}}

\* the first k calls of `order` run one after another on a new analyzer made
\* at clock t0: the analyzer after them and the value returned by the k-th
RECURSIVE SerialRun(_, _, _)
SerialRun(order, k, t0) ==
    IF k = 0 THEN [engine |-> NewEngine(t0), result |-> ErrResult]
    ELSE LET p == order[k]
         IN  analyze_flow_state(SerialRun(order, k - 1, t0).engine, call[p].flow_data,
                                call[p].user_preferences, call[p].start_time,
                                [ok |-> FALSE, prediction |-> 0])

\* C11: the results of the calls for one user and the state of the user's
\* analyzer equal those of running the calls one after another in the order
\* they obtained the lock
SerialInLockOrder ==
    \A h \in 1..Len(arcs) :
        LET order == LockOrder(h)
            n == Cardinality({i \in 1..Len(order) : order[i] \in Analyzed})
        IN  /\ \A i \in 1..n : order[i] \in Analyzed
            /\ arcs[h].data = SerialRun(order, n, arcs[h].created).engine
            /\ \A i \in 1..n :
                   call[order[i]].flow_result = SerialRun(order, i, arcs[h].created).result

\* three calls of one user have completed, the lock was not granted in the
\* order of the call numbers, the second holder ended the session the first
\* one began, and the third scored on a buffer holding the intervals of both
SerialInLockOrderWitness ==
    /\ \A p \in Procs : pc[p] = "done" /\ call[p].outcome = "ok"
    /\ Len(arcs) = 1
    /\ acquired = <<2, 3, 1>>
    /\ call[2].flow_result.is_in_flow
    /\ ~call[3].flow_result.is_in_flow
    /\ call[1].flow_result.flow_intensity < call[2].flow_result.flow_intensity
    /\ arcs[1].data.flow_session_count = 1
    /\ Len(arcs[1].data.keystroke_buffer) = 13

\* the calls about to take a lock: the registry map's, in the lookup, or the
\* analyzer's
AtLock == {p \in Procs : pc[p] \in {"resolve", "lock"}}

\* C12: a call about to take a lock can take it unless a call of the same
\* user holds that user's write guard; what a call of another user holds,
\* across its analysis or after it, never stops the lookup or the locking
OtherUsersNeverBlock ==
    \A q \in AtLock :
        \/ ENABLED (get_or_create_flow_engine(q) \/ AcquireWrite(q))
        \/ \E p \in Holding \ {q} : call[p].user_id = call[q].user_id

\* a call of one user still holds its guard, inside analyze_flow_state, and a
\* call of another user that looked up its analyzer after that has finished
OtherUsersNeverBlockWitness ==
    \E p \in Procs : \E q \in Procs :
        /\ call[p].user_id # call[q].user_id
        /\ pc[p] = "analyze"
        /\ acquired = <<p, q>>
        /\ pc[q] = "done" /\ call[q].outcome = "ok"
        /\ Len(arcs) = 2
        /\ arcs[1].owner = call[p].user_id

\* the calls of user u in the order they obtained a write guard
UserOrder(u) == SelectSeq(acquired, LAMBDA p : call[p].user_id = u)

\* the analyzer of every user and the results of the user's calls are those
\* of the user's own calls alone
OwnCallsOnly ==
    \A u \in Users :
        LET order == UserOrder(u)
            n == Cardinality({i \in 1..Len(order) : order[i] \in Analyzed})
        IN  /\ flow_engines[u] = None => n = 0
            /\ flow_engines[u] # None =>
                  LET a == arcs[flow_engines[u][1]]
                  IN  /\ a.data = SerialRun(order, n, a.created).engine
                      /\ \A i \in 1..n :
                             call[order[i]].flow_result
                                 = SerialRun(order, i, a.created).result

\* a step that changes an existing analyzer is a step of a call of its owner
OwnerStepsOnly ==
    \A h \in 1..Len(arcs) :
        arcs'[h].data # arcs[h].data
            => \E p \in Procs : /\ pc'[p] # pc[p]
                                /\ call[p].user_id = arcs[h].owner
                                /\ \A q \in Procs \ {p} : pc'[q] = pc[q]

\* C13: a call for one user changes only that user's AnalyzerState, and
\* every call's result depends only on its own user's state
OnlyOwnUserState == [](OwnCallsOnly) /\ [][OwnerStepsOnly]_vars

\* calls of two users have interleaved: the first and third holders of a lock
\* belong to one user, the second to another, and each analyzer holds only
\* its own user's intervals
OnlyOwnUserStateWitness ==
    /\ \A p \in Procs : pc[p] = "done" /\ call[p].outcome = "ok"
    /\ Len(acquired) = 3
    /\ call[acquired[1]].user_id = call[acquired[3]].user_id
    /\ call[acquired[1]].user_id # call[acquired[2]].user_id
    /\ Len(arcs) = 2
    /\ Len(arcs[1].data.keystroke_buffer) = 10
    /\ Len(arcs[2].data.keystroke_buffer) = 3
    /\ arcs[2].data.flow_session_count = 0
    /\ arcs[1].data.flow_start_time # None

\* a call that got the inference error has returned it: no result, no insert
\* task spawned, no message pushed, and it holds no guard
ErrorSkipsPublishing ==
    \A p \in Procs :
        call[p].outcome = "ml_error"
            => /\ pc[p] = "done"
               /\ call[p].flow_result = NoCall.flow_result
               /\ ~call[p].db_task
               /\ ~call[p].pushed
               /\ arcs[call[p].flow_engine_arc[1]].writer # Some(p)

\* the step out of analyze_flow_state: with a model attached and the
\* inference failing it ends the call with the error after one attempt (the
\* sample's intervals are in the buffer once, nothing is scored); without a
\* model it cannot fail
FailedInferenceIsError ==
    \A p \in Procs :
        (pc[p] = "analyze" /\ pc'[p] # "analyze")
            => LET h == call[p].flow_engine_arc[1]
               IN  IF arcs[h].data.ml_engine.model # None
                   THEN /\ call'[p].outcome = "ml_error"
                        /\ pc'[p] = "done"
                        /\ arcs'[h].data.keystroke_buffer
                              = PushIntervals(arcs[h].data.keystroke_buffer,
                                              call[p].flow_data.keystroke_intervals)
                        /\ arcs'[h].data.confidence_history
                              = arcs[h].data.confidence_history
                        /\ arcs'[h].data.last_analysis = arcs[h].data.last_analysis
                   ELSE call'[p].outcome = "ok"

\* C14: with a model attached a failed inference is returned as an ML error,
\* never as the rule-based score; analyze_flow_state passes it on after one
\* attempt and detect_flow_state then neither spawns the insert nor pushes
ModelFailureIsReported == [](ErrorSkipsPublishing) /\ [][FailedInferenceIsError]_vars

\* a call on an analyzer with a model has returned the error while its user
\* has an open push channel, and an earlier call on the same analyzer, before
\* the model was attached, was scored and pushed
ModelFailureIsReportedWitness ==
    \E p \in Procs : \E q \in Procs :
        /\ call[p].outcome = "ml_error"
        /\ websocket_connections[call[p].user_id] = Some("open")
        /\ call[q].user_id = call[p].user_id
        /\ call[q].outcome = "ok" /\ call[q].pushed /\ pc[q] = "done"
        /\ Len(arcs[call[p].flow_engine_arc[1]].data.keystroke_buffer) = 10

\* C15: every detect_flow_state call whose analysis succeeded eventually
\* returns and releases its user's write guard, whatever becomes of the
\* insert task and of the push, also when the user's channel is closed
AnalysedCallsReturn ==
    \A p \in Procs :
        (call[p].outcome = "ok")
            ~> (pc[p] = "done" /\ arcs[call[p].flow_engine_arc[1]].writer # Some(p))

\* the rules in the order the claim lists them
RuleOrder == <<"break", "focus_mode", "slow_down", "steady_rhythm", "longer_blocks",
               "warm_up">>

\* whether the rule named tag matches call h
RuleMatches(h, tag) ==
    CASE tag = "break"         -> h.result.flow_intensity < 4000
      [] tag = "focus_mode"    -> h.data.context_switches > 5
      [] tag = "slow_down"     -> h.data.error_events > 3
      [] tag = "steady_rhythm" -> h.result.metrics.rhythm_score < 5000
      [] tag = "longer_blocks" -> h.data.window_focus_duration < 300000
      [] tag = "warm_up"       -> h.result.metrics.velocity_score < 6000

\* C16: the recommendations of every result are non-empty: the messages of
\* exactly the matching rules, in the fixed order, or the reinforcement
\* message alone if and only if no rule matches
RecommendationsAreMatchingRules ==
    \A i \in Calls :
        hist[i].result.ok =>
            LET recs == hist[i].result.recommendations
                matching == SelectSeq(RuleOrder, LAMBDA tag : RuleMatches(hist[i], tag))
            IN  /\ recs # <<>>
                /\ matching # <<>> => recs = matching
                /\ matching = <<>> => recs = <<"great_focus">>
                /\ (\E k \in 1..Len(recs) : recs[k] = "great_focus") <=> matching = <<>>

\* one call matched no rule and got the reinforcement message alone, the next
\* matched the first four rules and the last
RecommendationsAreMatchingRulesWitness ==
    /\ Len(hist) = 2
    /\ hist[1].result.recommendations = <<"great_focus">>
    /\ hist[2].result.recommendations
         = <<"break", "focus_mode", "slow_down", "steady_rhythm", "warm_up">>

\* C17: a call whose measured analysis time exceeds the 1 ms budget returns
\* Ok, with the same is_in_flow, intensity, confidence, recommendations and
\* state update as a call in the same state with the same sample that stayed
\* within it; the time shows only in analysis_time_ms and in the warning
SlowAnalysisSameResult ==
    /\ \A i \in 1..Len(hist) :
           /\ hist[i].result.ok
           /\ hist[i].warned <=> hist[i].analysis_time_us > LatencyBudgetUs
    /\ \A i \in 1..Len(hist) : \A j \in 1..Len(twinHist) :
           (/\ hist[i].pre = twinHist[j].pre
            /\ hist[i].data = twinHist[j].data
            /\ hist[i].at = twinHist[j].at)
           => /\ hist[i].result = twinHist[j].result
              /\ hist[i].post = twinHist[j].post

\* two engines in the same state got the same sample; one call took 3 ms
\* and was warned about, the other 0.4 ms; both are in flow
SlowAnalysisSameResultWitness ==
    /\ Len(hist) = 2 /\ Len(twinHist) = 2
    /\ hist[2].pre = twinHist[2].pre
    /\ hist[2].data = twinHist[2].data
    /\ hist[2].at = twinHist[2].at
    /\ hist[2].warned /\ hist[2].analysis_time_us = 3000
    /\ ~twinHist[2].warned /\ twinHist[2].analysis_time_us = 400
    /\ hist[2].result.is_in_flow
    /\ hist[2].pre.keystroke_buffer # <<>>

\* the admitted calls before the i-th for the same identifier that lie in
\* the window ending at the i-th
AdmittedInWindow(i) ==
    {j \in 1..(i - 1) : /\ rateLog[j].identifier = rateLog[i].identifier
                        /\ rateLog[j].allowed
                        /\ rateLog[i].at - rateLog[j].at < WindowMs}

\* C18: a check_rate_limit call returns true if and only if fewer than
\* max_requests earlier admitted calls for its identifier lie within the
\* window ending now; the limiter records admitted calls only
AdmitsIffWindowHasRoom ==
    /\ \A i \in 1..Len(rateLog) :
           /\ rateLog[i].allowed <=> Cardinality(AdmittedInWindow(i)) < MaxRequests
           /\ Cardinality(AdmittedInWindow(i)) <= MaxRequests
    /\ \A identifier \in Identifiers :
           requests[identifier] # None =>
               LET times == requests[identifier][1]
               IN  /\ Len(times) <= MaxRequests
                   /\ \A k \in 1..Len(times) :
                          Cardinality({j \in 1..Len(rateLog) :
                                          /\ rateLog[j].identifier = identifier
                                          /\ rateLog[j].allowed
                                          /\ rateLog[j].at = times[k]})
                              >= Cardinality({m \in 1..Len(times) : times[m] = times[k]})

\* user1 was admitted twice and rejected twice, user2 was admitted in
\* between, and once the window had passed user1 was admitted again
AdmitsIffWindowHasRoomWitness ==
    /\ Len(rateLog) = 5
    /\ rateLog[1].identifier = "user1" /\ rateLog[1].allowed
    /\ rateLog[2].identifier = "user1" /\ rateLog[2].allowed
    /\ rateLog[3].identifier = "user1" /\ ~rateLog[3].allowed
    /\ rateLog[4].identifier = "user2" /\ rateLog[4].allowed
    /\ rateLog[4].at = rateLog[3].at
    /\ rateLog[5].identifier = "user1" /\ rateLog[5].allowed
    /\ rateLog[5].at > rateLog[1].at

\* C19: a value encrypted by encrypt_sensitive_data is returned unchanged by
\* decrypt_sensitive_data on the same service, also after any number of
\* rotate_key calls at any times
DecryptReturnsPlaintext ==
    \A i \in 1..Len(decLog) :
        decLog[i].result = [ok |-> TRUE, value |-> decLog[i].plain]

\* the analyze calls that returned a result and found no active session
FoundNoSession == {i \in Calls : hist[i].result.ok /\ hist[i].pre.flow_start_time = None}

\* C20: a call above the threshold that finds no active session records the
\* current time as the session start and reports flow_duration_ms = 0; a call
\* at or below the threshold that finds none reports 0 and records no start
NoSessionReportsZero ==
    \A i \in FoundNoSession :
        /\ hist[i].result.flow_duration_ms = 0
        /\ hist[i].post.flow_session_count = hist[i].pre.flow_session_count
        /\ hist[i].post.total_flow_time = hist[i].pre.total_flow_time
        /\ IF Above(hist[i])
           THEN hist[i].post.flow_start_time = Some(hist[i].at)
           ELSE hist[i].post.flow_start_time = None

\* a call below the threshold and then, later, a call above it, both finding
\* no active session
NoSessionReportsZeroWitness ==
    /\ {1, 2} \subseteq FoundNoSession
    /\ ~Above(hist[1])
    /\ Above(hist[2])
    /\ hist[2].at > hist[1].at

\* the analyze calls that returned a result and found a session active
FoundSession == {i \in Calls : hist[i].result.ok /\ hist[i].pre.flow_start_time # None}

\* the time since the session start that call i found
SinceStart(i) == hist[i].at - hist[i].pre.flow_start_time[1]

\* C21: a call at or below the threshold that finds a session active adds the
\* time since the session start to the lifetime total, adds one to the
\* session counter, clears the start timestamp and reports that time as
\* flow_duration_ms, with is_in_flow false
EndingCallClosesSession ==
    \A i \in FoundSession :
        ~Above(hist[i]) =>
            /\ hist[i].post.total_flow_time = hist[i].pre.total_flow_time + SinceStart(i)
            /\ hist[i].post.flow_session_count = hist[i].pre.flow_session_count + 1
            /\ hist[i].post.flow_start_time = None
            /\ hist[i].result.flow_duration_ms = SinceStart(i)
            /\ ~hist[i].result.is_in_flow

\* a session that began after an earlier one had been counted is ended by a
\* call made later than its start
EndingCallClosesSessionWitness ==
    \E i \in FoundSession :
        /\ ~Above(hist[i])
        /\ SinceStart(i) > 0
        /\ hist[i].pre.flow_session_count > 0
        /\ hist[i].result.flow_duration_ms > 0

\* calls a..b lie in one session: a opens it and every later one continues it
SameSession(a, b) ==
    /\ a <= b
    /\ \A m \in a..b : m \in Calls /\ hist[m].result.ok /\ Above(hist[m])
    /\ hist[a].pre.flow_start_time = None

\* C22: the session counter and the total flow time change only on a call
\* that ends a session; a continuing call keeps the start timestamp and
\* reports the time since it, so the durations reported within one session
\* never decrease
CountersChangeOnlyAtSessionEnd ==
    /\ \A i \in Calls :
           (hist[i].result.ok /\ ~(i \in FoundSession /\ ~Above(hist[i]))) =>
               /\ hist[i].post.flow_session_count = hist[i].pre.flow_session_count
               /\ hist[i].post.total_flow_time = hist[i].pre.total_flow_time
    /\ \A i \in FoundSession :
           Above(hist[i]) =>
               /\ hist[i].post.flow_start_time = hist[i].pre.flow_start_time
               /\ hist[i].result.flow_duration_ms = SinceStart(i)
    /\ \A a \in Calls : \A b \in Calls : \A c \in Calls :
           (SameSession(a, c) /\ a <= b /\ b <= c) =>
               hist[b].result.flow_duration_ms <= hist[c].result.flow_duration_ms

\* a session of three calls, the last one later than the first two, after a
\* call that stayed out of flow
CountersChangeOnlyAtSessionEndWitness ==
    /\ Len(hist) = 4
    /\ 1 \in Calls /\ ~Above(hist[1])
    /\ SameSession(2, 4)
    /\ hist[3].result.flow_duration_ms = 0
    /\ hist[4].result.flow_duration_ms > 0

\* the confidences returned by the first i entries of hist, in call order
RECURSIVE ConfidencesUpTo(_)
ConfidencesUpTo(i) ==
    IF i = 0 THEN <<>>
    ELSE ConfidencesUpTo(i - 1)
         \o (IF hist[i].op = "analyze" /\ hist[i].result.ok
             THEN <<hist[i].result.confidence>> ELSE <<>>)

\* C23: the confidence history holds at most 50 values, the confidences of
\* the last min(50, n) successful calls in call order
ConfidenceHistoryIsLast50 ==
    LET returned == ConfidencesUpTo(Len(hist))
    IN  /\ Len(engine.confidence_history) <= 50
        /\ engine.confidence_history =
               (IF Len(returned) <= 50 THEN returned
                ELSE SubSeq(returned, Len(returned) - 49, Len(returned)))

\* 52 calls were made; the two oldest confidences are gone and differ from
\* the values now at the head of the history
ConfidenceHistoryIsLast50Witness ==
    /\ Len(hist) = 52
    /\ Len(engine.confidence_history) = 50
    /\ engine.confidence_history[1] = hist[3].result.confidence
    /\ engine.confidence_history[50] = hist[52].result.confidence
    /\ hist[1].result.confidence # hist[3].result.confidence
    /\ hist[2].result.confidence # hist[4].result.confidence
    /\ hist[51].result.confidence # hist[52].result.confidence

\* the data-quality factor of a sample
QualityOf(data) ==
    IF Len(data.keystroke_intervals) >= 10 THEN SCALE
    ELSE IF Len(data.keystroke_intervals) >= 5 THEN 8000
    ELSE 5000

\* what the claim gives as the confidence of call i
ClaimedConfidence(i) ==
    LET c == Mul(hist[i].result.flow_intensity, QualityOf(hist[i].data))
        earlier == ConfidencesUpTo(i - 1)
        recent == LastN(earlier, 5)
        s == IF Len(earlier) >= 3
             THEN SCALE - Mul(Abs(c - SumSeq(recent) \div Len(recent)), 5000)
             ELSE SCALE
    IN  Clamp01(Mul(c, s))

\* C24: the confidence of a call is clamp01(c * s), c the intensity times the
\* data-quality factor of the call's sample and s = 1 - 0.5*|c - avg| over
\* the up-to-5 most recent earlier confidences once there are 3; the first
\* three calls of a fresh analyzer report c
ConfidenceFromQualityAndHistory ==
    \A i \in Calls :
        hist[i].result.ok =>
            /\ hist[i].result.confidence = ClaimedConfidence(i)
            /\ (i <= 3 /\ Fresh(hist[1].pre)) =>
                   hist[i].result.confidence =
                       Mul(hist[i].result.flow_intensity, QualityOf(hist[i].data))

\* the first three calls had the three data qualities; the eighth call was
\* damped by the mean of the five confidences before it, which is not the
\* mean of all seven
ConfidenceFromQualityAndHistoryWitness ==
    /\ Len(hist) = 8
    /\ {QualityOf(hist[i].data) : i \in 1..3} = {5000, 8000, SCALE}
    /\ hist[8].result.confidence > 0
    /\ hist[8].result.confidence
           < Mul(hist[8].result.flow_intensity, QualityOf(hist[8].data))
    /\ SumSeq(ConfidencesUpTo(7)) \div 7
           # SumSeq(LastN(ConfidencesUpTo(7), 5)) \div 5

\* the weighted sum rule_based_prediction forms from a feature array
WeightedSum(features) ==
    (35 * features[1] + 25 * features[2] + 20 * features[3]
     + 10 * (SCALE - features[4]) + 10 * features[5]) \div 100

\* C25: rule_based_prediction maps the weighted sum s to s + 0.5*(s - 0.8)
\* above 0.8, to 0.8*s below 0.3 and to s otherwise, clamped to [0, 1]; at
\* exactly 0.8 and 0.3 the sum is returned, and the value never decreases
\* as s grows
RuleAdjustsWeightedSum ==
    /\ \A i \in 1..Len(ruleLog) :
           LET sum == WeightedSum(ruleLog[i].features)
               value == ruleLog[i].value
           IN  /\ sum > 8000 => value = Min(sum + (sum - 8000) \div 2, SCALE)
               /\ sum < 3000 => value = Max((sum * 8) \div 10, 0)
               /\ (3000 <= sum /\ sum <= 8000) => value = sum
               /\ 0 <= value /\ value <= SCALE
    /\ \A i \in 1..Len(ruleLog) : \A j \in 1..Len(ruleLog) :
           WeightedSum(ruleLog[i].features) <= WeightedSum(ruleLog[j].features)
               => ruleLog[i].value <= ruleLog[j].value

\* a sum just below 0.3 was dampened, a sum of exactly 0.3 returned as it
\* is, and a sum above 1 clamped
RuleAdjustsWeightedSumWitness ==
    /\ Len(ruleLog) = 3
    /\ WeightedSum(ruleLog[1].features) = 2999 /\ ruleLog[1].value = 2399
    /\ WeightedSum(ruleLog[2].features) = 3000 /\ ruleLog[2].value = 3000
    /\ WeightedSum(ruleLog[3].features) > SCALE /\ ruleLog[3].value = SCALE

\* the sample without its error count
ApartFromErrors(data) == [data EXCEPT !.error_events = 0]

\* C30: of two calls in the same analyzer state whose samples differ in
\* error_events only, the one with more errors never gets the larger
\* flow_intensity
MoreErrorsNeverRaiseIntensity ==
    \A i \in 1..Len(hist) : \A j \in 1..Len(twinHist) :
        (/\ hist[i].pre = twinHist[j].pre
         /\ hist[i].at = twinHist[j].at
         /\ hist[i].prefs = twinHist[j].prefs
         /\ ApartFromErrors(hist[i].data) = ApartFromErrors(twinHist[j].data)
         /\ hist[i].data.error_events <= twinHist[j].data.error_events)
        => hist[i].result.flow_intensity >= twinHist[j].result.flow_intensity

\* the rhythm score the claim gives for a list of intervals: mean = sm / n
ClaimedRhythm(intervals) ==
    LET n  == Len(intervals)
        sm == SumSeq(intervals)
        cv == calculate_coefficient_of_variation(intervals)
        tier == IF 80 * n <= sm /\ sm <= 200 * n /\ cv < 3000 THEN 9500
                ELSE IF 50 * n <= sm /\ sm <= 300 * n /\ cv < 5000 THEN 8000
                ELSE IF 30 * n <= sm /\ sm <= 500 * n /\ cv < 8000 THEN 6000
                ELSE 2000
        bonus == IF n >= 20
                    /\ calculate_coefficient_of_variation(LastN(intervals, 20)) < cv - 1000
                 THEN 1000 ELSE 0
    IN  IF n < 3 \/ sm = 0 THEN 0 ELSE Min(tier + bonus, SCALE)

\* C26: the rhythm score is computed from this call's intervals only: 0 for
\* fewer than 3 intervals or a zero mean, otherwise the first matching tier
\* (0.95, 0.80, 0.60, else 0.20) plus 0.1 when at least 20 intervals are
\* present and the CV of the last 20 is lower than the overall CV by more
\* than 0.1, capped at 1.0
RhythmFromOwnIntervals ==
    \A i \in Calls :
        hist[i].result.ok =>
            hist[i].result.metrics.rhythm_score
                = ClaimedRhythm(hist[i].data.keystroke_intervals)

\* after a call that filled the buffer with other intervals, a sample of 25
\* intervals got the top tier and the bonus, capped at 1.0
RhythmFromOwnIntervalsWitness ==
    /\ Len(hist) = 2
    /\ hist[2].pre.keystroke_buffer # <<>>
    /\ hist[1].result.metrics.rhythm_score = 2000
    /\ Len(hist[2].data.keystroke_intervals) > 20
    /\ hist[2].result.metrics.rhythm_score = SCALE

\* the time between call i and the previous analysis (or the creation)
SinceLastAnalysis(i) == hist[i].at - hist[i].pre.last_analysis

\* C27: the focus score's time bonus is 0 when at most 10 s have elapsed
\* since the previous analysis, grows with the elapsed time beyond 10 s and
\* reaches its maximum of 0.2 only at 60 s; bonus plus exp(-0.2 * context
\* switches) is capped at 1.0
FocusBonusFullOnlyAtSixtySeconds ==
    /\ \A i \in Calls :
           hist[i].result.ok =>
               LET base == ExpDecay(hist[i].data.context_switches)
                   focus == hist[i].result.metrics.focus_score
               IN  /\ focus <= SCALE
                   /\ SinceLastAnalysis(i) <= 10000 => focus = base
                   /\ SinceLastAnalysis(i) >= 60000 => focus = Min(base + 2000, SCALE)
                   /\ (SinceLastAnalysis(i) < 60000 /\ base + 2000 <= SCALE)
                          => focus < base + 2000
    /\ \A i \in Calls : \A j \in Calls :
           (/\ hist[i].result.ok /\ hist[j].result.ok
            /\ hist[i].data.context_switches = hist[j].data.context_switches
            /\ SinceLastAnalysis(i) <= SinceLastAnalysis(j))
           => hist[i].result.metrics.focus_score <= hist[j].result.metrics.focus_score

\* the intervals buffered when call i is scored: those before it and its own
BufferedAt(i) ==
    LastN(hist[i].pre.keystroke_buffer \o hist[i].data.keystroke_intervals, BufferCap)

\* C28: the consistency score is the neutral 0.5, without file-modification
\* bonus, whenever fewer than 10 intervals are buffered, this call's
\* intervals included; otherwise it is scored from the buffer
ConsistencyFromBuffer ==
    \A i \in Calls :
        hist[i].result.ok =>
            /\ Len(BufferedAt(i)) < 10 => hist[i].result.metrics.consistency_score = 5000
            /\ Len(BufferedAt(i)) >= 10 =>
                   hist[i].result.metrics.consistency_score
                       = LET cv == Min(calculate_coefficient_of_variation(BufferedAt(i)),
                                       calculate_coefficient_of_variation(
                                           Reverse(LastN(BufferedAt(i), 20))))
                             mods == hist[i].data.file_modifications
                             dur == hist[i].data.window_focus_duration
                             bonus == IF mods > 0 /\ dur > 0 /\ 2000 * mods >= dur
                                         /\ 1000 * mods <= 2 * dur THEN 2000
                                      ELSE IF mods > 0 /\ dur > 0 /\ 10000 * mods >= dur
                                              /\ 2000 * mods <= dur THEN 1000
                                      ELSE 0
                         IN  Min(Max(SCALE - cv, 0) + bonus, SCALE)

\* the first call on a fresh analyzer brought ten intervals and was scored
\* from them; the next call brought none and was scored from the buffer
ConsistencyFromBufferWitness ==
    /\ Len(hist) = 2
    /\ Fresh(hist[1].pre)
    /\ Len(hist[1].data.keystroke_intervals) = 10
    /\ hist[1].result.metrics.consistency_score > 5000
    /\ hist[2].data.keystroke_intervals = <<>>
    /\ hist[2].result.metrics.consistency_score > 5000

\* the velocity score the claim gives for a sample
ClaimedVelocity(data) ==
    IF data.typing_velocity # None
    THEN LET v == data.typing_velocity[1]
         IN  IF 200 <= v /\ v <= 400 THEN 9000
             ELSE IF 100 <= v /\ v < 200 THEN 7000
             ELSE IF 400 < v /\ v <= 600 THEN 8000
             ELSE 5000
    ELSE IF data.keystroke_intervals = <<>> \/ SumSeq(data.keystroke_intervals) = 0
    THEN 5000
    ELSE LET n  == Len(data.keystroke_intervals)
             sm == SumSeq(data.keystroke_intervals)
         IN  IF 200 * sm <= 60000 * n /\ 60000 * n <= 400 * sm THEN 9000
             ELSE IF 100 * sm <= 60000 * n /\ 60000 * n <= 600 * sm THEN 7000
             ELSE 5000

\* C29: the velocity score uses the explicit typing velocity whenever given
\* (0.9 for [200,400], 0.7 for [100,200), 0.8 for (400,600], else 0.5);
\* without it the score comes from 60000 / mean interval (0.9 for [200,400],
\* 0.7 for the rest of [100,600], else 0.5, also for a zero mean); with
\* neither it is 0.5
VelocityPrefersExplicit ==
    \A i \in Calls :
        hist[i].result.ok =>
            hist[i].result.metrics.velocity_score = ClaimedVelocity(hist[i].data)

\* a sample with an explicit velocity of 600 whose intervals alone would
\* score 0.9, then a sample without velocity whose intervals are all zero
VelocityPrefersExplicitWitness ==
    /\ Len(hist) = 2
    /\ hist[1].data.typing_velocity = Some(600)
    /\ ClaimedVelocity([hist[1].data EXCEPT !.typing_velocity = None]) = 9000
    /\ hist[1].result.metrics.velocity_score = 8000
    /\ hist[2].data.typing_velocity = None
    /\ hist[2].data.keystroke_intervals = <<0, 0, 0>>
    /\ hist[2].result.metrics.velocity_score = 5000

----------------------------------------------------------------------------
(* The confidence never exceeds the intensity *)

\* C31: in every result the confidence is at most the flow intensity (and
\* not negative), whatever confidences the analyzer has recorded before
ConfidenceAtMostIntensity ==
    \A i \in Calls :
        hist[i].result.ok =>
            /\ hist[i].result.confidence >= 0
            /\ hist[i].result.confidence <= hist[i].result.flow_intensity

\* a call on a full-quality sample with five recorded confidences behind it
\* reported less confidence than intensity, and an earlier call on a
\* full-quality sample reported exactly its intensity
ConfidenceAtMostIntensityWitness ==
    /\ Len(hist) >= 6
    /\ \E i \in 1..3 :
          /\ QualityOf(hist[i].data) = SCALE
          /\ hist[i].result.flow_intensity > 0
          /\ hist[i].result.confidence = hist[i].result.flow_intensity
    /\ \E i \in 6..Len(hist) :
          /\ QualityOf(hist[i].data) = SCALE
          /\ Len(hist[i].pre.confidence_history) >= 5
          /\ hist[i].result.confidence > 0
          /\ hist[i].result.confidence < hist[i].result.flow_intensity

----------------------------------------------------------------------------
(* The session start and the reported flow state *)

\* C32: after every successful analyze_flow_state call the analyzer holds a
\* session start timestamp exactly when the call's result has is_in_flow
ActiveSessionIffInFlow ==
    \A i \in Calls :
        (hist[i].op = "analyze" /\ hist[i].result.ok) =>
            (hist[i].post.flow_start_time # None <=> hist[i].result.is_in_flow)

\* all four cases happened: a call opened a session, a call continued it, a
\* call ended it, and a call found none and left none
ActiveSessionIffInFlowWitness ==
    /\ Len(hist) = 4
    /\ \A i \in 1..4 : hist[i].op = "analyze" /\ hist[i].result.ok
    /\ hist[1].pre.flow_start_time = None /\ hist[1].result.is_in_flow
    /\ hist[2].pre.flow_start_time # None /\ hist[2].result.is_in_flow
    /\ hist[2].post.flow_start_time = hist[1].post.flow_start_time
    /\ hist[3].pre.flow_start_time # None /\ ~hist[3].result.is_in_flow
    /\ hist[4].pre.flow_start_time = None /\ ~hist[4].result.is_in_flow
    /\ hist[4].post.flow_start_time = None

----------------------------------------------------------------------------
(* reset_session_stats *)

\* the first analysis after entry r, if there is one
NextAnalysisAfter(r) ==
    {j \in Calls : j > r /\ \A k \in Calls : k > r => j <= k}

\* C33: reset_session_stats zeroes the session counter and the total flow
\* time, clears the session start and leaves every other field as it was;
\* the session that was active at the reset is not counted by the next
\* analysis, which, when above the threshold, opens a new session at its own
\* time and reports duration 0
ResetClearsSessionOnly ==
    \A r \in DOMAIN hist :
        hist[r].op = "reset" =>
            /\ hist[r].post = [hist[r].pre EXCEPT !.flow_session_count = 0,
                                                  !.total_flow_time = 0,
                                                  !.flow_start_time = None]
            /\ \A j \in NextAnalysisAfter(r) :
                  hist[j].result.ok =>
                      /\ hist[j].post.flow_session_count = 0
                      /\ hist[j].post.total_flow_time = 0
                      /\ Above(hist[j]) =>
                            /\ hist[j].result.flow_duration_ms = 0
                            /\ hist[j].post.flow_start_time = Some(hist[j].at)
                      /\ ~Above(hist[j]) => hist[j].post.flow_start_time = None

\* a session opened at time 0 was active at a later reset, the analyzer had
\* intervals, a confidence and an intensity to keep, and the next call was
\* above the threshold
ResetClearsSessionOnlyWitness ==
    /\ Len(hist) = 3
    /\ hist[1].op = "analyze" /\ hist[1].result.is_in_flow
    /\ hist[2].op = "reset" /\ hist[2].at > hist[1].at
    /\ hist[2].pre.flow_start_time = Some(hist[1].at)
    /\ hist[2].pre.keystroke_buffer # <<>>
    /\ hist[2].pre.confidence_history # <<>>
    /\ hist[2].pre.current_intensity > 0
    /\ hist[3].op = "analyze" /\ Above(hist[3])
    /\ hist[3].result.flow_duration_ms = 0

----------------------------------------------------------------------------
(* A failed scoring backend and the analyzer state *)

\* the step in which analyze_flow_state returns the scoring backend's error
\* leaves every field of the analyzer as it was
FailedCallKeepsState ==
    \A p \in Procs :
        (pc[p] = "analyze" /\ pc'[p] = "done" /\ call'[p].outcome = "ml_error")
            => LET h == call[p].flow_engine_arc[1]
               IN  arcs'[h].data = arcs[h].data

----------------------------------------------------------------------------
(* The order of the pushes of one user *)

\* C35: the flow-state messages sent to a user's channel are those of the
\* user's pushed calls, in the order in which the calls obtained the
\* analyzer's write guard
PushesInLockOrder ==
    \A u \in Users :
        outbox[u] = SelectSeq(UserOrder(u), LAMBDA p : call[p].pushed)

\* two calls of one user were pushed, the call with the higher number first,
\* and the later one is still on its way out of the handler
PushesInLockOrderWitness ==
    \E u \in Users :
        /\ outbox[u] = <<2, 1>>
        /\ pc[2] = "done" /\ pc[1] = "return"

----------------------------------------------------------------------------
(* The registered sender of a user with several connections *)

\* the connections in their loop that registered after every other
\* connection of their user
NewestOpen ==
    {c \in Conns : /\ conns[c].at = "loop"
                   /\ \A d \in Conns \ {c} :
                         conns[d].user_id = conns[c].user_id
                             => conns[d].reg < conns[c].reg}

\* C36: while the connection of a user that registered last is open, its
\* sender is the one registered for the user, also after the cleanup of an
\* older connection of the same user
NewestConnectionStaysRegistered ==
    \A c \in NewestOpen : websocket_connections[conns[c].user_id] = Some(c)

----------------------------------------------------------------------------
(* The stale check and the client's pongs *)

\* the step in which a connection leaves its loop as stale finds a ping that
\* its client had read and not answered
StaleStepFindsUnansweredPing ==
    \A c \in Conns :
        (conns[c].at = "loop" /\ conns'[c].why = "stale") => conns[c].owed > 0

\* C39: a connection whose client has answered every ping it read with a
\* pong is not closed as stale; the stale check ends only connections whose
\* client has stopped answering
AnsweringClientNeverStale == [][StaleStepFindsUnansweredPing]_vars

----------------------------------------------------------------------------
(* The sessions cleanup_idle_sessions removes *)

\* C37: every session that cleanup_idle_sessions removes has, at the moment
\* of the removal, a last_activity older than the call's cutoff; a session
\* refreshed between the scan and the removal is not removed
RemovesOnlyIdleSessions ==
    \A i \in 1..Len(cleaner.removed) :
        cleaner.removed[i].last_activity < cleaner.removed[i].cutoff_time

----------------------------------------------------------------------------
(* The u64 sum of a validated sample's intervals *)

\* C38: for every sample that passes validation the u64 sum of its
\* intervals does not overflow: the analysis neither panics nor goes on
\* with a wrapped sum
IntervalSumNeverOverflows ==
    \A i \in 1..Len(sumLog) :
        ~sumLog[i].overflow /\ sumLog[i].outcome = "summed"

============================================================================
